---- MODULE Spec2Model ----
(***************************************************************************)
(* Human-in-the-loop SQL gateway (FastAPI app in main.py, the pending      *)
(* store in pending_manager.py, the storage layer in db.py and the         *)
(* LangGraph translation workflow in langgraph_parser.py).                 *)
(*                                                                         *)
(* Text is modelled as a sequence of atoms (short strings).  An atom never *)
(* holds part of a keyword, so Python's `kw in s` is "kw is a contiguous   *)
(* run of atoms of s".  Every endpoint is a plain `def`, which FastAPI     *)
(* runs on a thread pool: requests interleave at every access to shared    *)
(* state (the pending table, the target databases, the history list).      *)
(***************************************************************************)
EXTENDS Integers, Sequences, FiniteSets, TLC

\* ------------------------------------------------------------------ bounds
\* Number of HTTP requests of one run; all of them may be in flight at once.
MaxRequests == 3

\* ------------------------------------------------------------- text helpers
\* str.lower() on one atom: the atoms written in upper case in the statements
\* below, mapped to their lower-case form; every other atom is lower already.
LowerAtom(a) ==
    CASE a = "SELECT" -> "select"
      [] a = "INSERT" -> "insert"
      [] a = "UPDATE" -> "update"
      [] a = "DELETE" -> "delete"
      [] a = "WHERE"  -> "where"
      [] a = "DROP"   -> "drop"
      [] a = "Create" -> "create"
      [] a = "TRUNCATE" -> "truncate"
      [] a = "ALTER"    -> "alter"
      [] a = "CREATE"   -> "create"
      [] a = "SHUTDOWN" -> "shutdown"
      [] a = "DATABASE" -> "database"
      [] a = "ATTACH"   -> "attach"
      [] a = "DETACH"   -> "detach"
      [] a = "REPLACE"  -> "replace"
      [] a = "GRANT"    -> "grant"
      [] a = "REVOKE"   -> "revoke"
      [] a = "EXEC"     -> "exec"
      [] a = "EXECUTE"  -> "execute"
      [] a = "PRAGMA"   -> "pragma"
      [] a = "Those"    -> "those"
      [] a = "WITH"     -> "with"
      [] OTHER        -> a

\* str.upper() on the operation word the model returns.
UpperWord(w) ==
    CASE w = "select" -> "SELECT"
      [] w = "insert" -> "INSERT"
      [] w = "update" -> "UPDATE"
      [] w = "delete" -> "DELETE"
      [] OTHER        -> w

Lower(s) == [i \in 1..Len(s) |-> LowerAtom(s[i])]

\* A keyword as a user or the model may spell it in capitals.
UpperAtom(a) ==
    CASE a = "drop"     -> "DROP"
      [] a = "truncate" -> "TRUNCATE"
      [] a = "alter"    -> "ALTER"
      [] a = "create"   -> "CREATE"
      [] a = "shutdown" -> "SHUTDOWN"
      [] a = "delete"   -> "DELETE"
      [] a = "database" -> "DATABASE"
      [] a = "attach"   -> "ATTACH"
      [] a = "detach"   -> "DETACH"
      [] a = "replace"  -> "REPLACE"
      [] a = "grant"    -> "GRANT"
      [] a = "revoke"   -> "REVOKE"
      [] a = "exec"     -> "EXEC"
      [] a = "execute"  -> "EXECUTE"
      [] a = "pragma"   -> "PRAGMA"
      [] OTHER          -> a

Upper(s) == [i \in 1..Len(s) |-> UpperAtom(s[i])]

\* Python's `kw in s` for str.
Contains(s, kw) ==
    \E i \in 0..(Len(s) - Len(kw)) :
        \A j \in 1..Len(kw) : s[i + j] = kw[j]

RECURSIVE StripLeft(_, _)
StripLeft(s, a) ==
    IF s # <<>> /\ Head(s) = a THEN StripLeft(Tail(s), a) ELSE s

RECURSIVE StripRight(_, _)
StripRight(s, a) ==
    IF s # <<>> /\ s[Len(s)] = a THEN StripRight(SubSeq(s, 1, Len(s) - 1), a) ELSE s

\* .strip().rstrip(";") + ";"  (langgraph_parser.py, generate_sql_node)
NormalizeSql(s) == StripRight(StripRight(StripLeft(s, " "), " "), ";") \o <<";">>

\* ------------------------------------------------------------ configuration
DANGEROUS_KEYWORDS ==
    << <<"drop">>, <<"truncate">>, <<"alter">>, <<"create">>, <<"shutdown">>,
       <<"delete", " ", "database">>, <<"attach">>, <<"detach">>, <<"replace">>,
       <<"grant">>, <<"revoke">>, <<"exec", "(">>, <<"execute", "(">>,
       <<"pragma">>, <<"attach", " ", "database">> >>

\* The keys of SCHEMA (llm_parser.py) and of DB_MAP (db.py): the same five names.
SCHEMA == {"hr", "healthcare", "ecommerce", "finance", "education"}
DB_MAP == {"hr", "healthcare", "ecommerce", "finance", "education"}

None == "None"
NoSql == <<>>
NoError == <<>>
NoRisk == [level |-> "none", factors |-> <<>>]

\* ------------------------------------------------------------------- tools
\* validate_sql_safety: the first denylist keyword found decides; then the
\* UPDATE/DELETE-without-WHERE rule, on the statement text alone.
RECURSIVE FirstKeyword(_, _)
FirstKeyword(sql_lower, k) ==
    IF k > Len(DANGEROUS_KEYWORDS) THEN 0
    ELSE IF Contains(sql_lower, DANGEROUS_KEYWORDS[k]) THEN k
    ELSE FirstKeyword(sql_lower, k + 1)

\* Variant: the list of keywords is not consulted.
validate_sql_safety_NoDenylist(sql) ==
    LET sql_lower == Lower(sql)
    IN  IF (Contains(sql_lower, <<"update">>) \/ Contains(sql_lower, <<"delete">>))
           /\ ~Contains(sql_lower, <<"where">>)
        THEN [safe |-> FALSE,
              reason |-> <<"UPDATE/DELETE without WHERE clause affects all rows", <<>> >>,
              risk_level |-> "CRITICAL"]
        ELSE [safe |-> TRUE, reason |-> <<"", <<>> >>, risk_level |-> "LOW"]

\* Variant: the keywords are looked up in the text as written (no lower()).
validate_sql_safety_CaseSensitive(sql) ==
    LET sql_lower == sql
        k == FirstKeyword(sql_lower, 1)
    IN  IF k # 0
        THEN [safe |-> FALSE,
              reason |-> <<"Dangerous keyword detected: ", DANGEROUS_KEYWORDS[k]>>,
              risk_level |-> "CRITICAL"]
        ELSE IF (Contains(sql_lower, <<"update">>) \/ Contains(sql_lower, <<"delete">>))
                /\ ~Contains(sql_lower, <<"where">>)
        THEN [safe |-> FALSE,
              reason |-> <<"UPDATE/DELETE without WHERE clause affects all rows", <<>> >>,
              risk_level |-> "CRITICAL"]
        ELSE [safe |-> TRUE, reason |-> <<"", <<>> >>, risk_level |-> "LOW"]

\* Variant: the WHERE rule looks for "update" only.
validate_sql_safety_UpdateOnly(sql) ==
    LET sql_lower == Lower(sql)
        k == FirstKeyword(sql_lower, 1)
    IN  IF k # 0
        THEN [safe |-> FALSE,
              reason |-> <<"Dangerous keyword detected: ", DANGEROUS_KEYWORDS[k]>>,
              risk_level |-> "CRITICAL"]
        ELSE IF Contains(sql_lower, <<"update">>) /\ ~Contains(sql_lower, <<"where">>)
        THEN [safe |-> FALSE,
              reason |-> <<"UPDATE/DELETE without WHERE clause affects all rows", <<>> >>,
              risk_level |-> "CRITICAL"]
        ELSE [safe |-> TRUE, reason |-> <<"", <<>> >>, risk_level |-> "LOW"]

\* Variant: every statement without "where" is refused.
validate_sql_safety_AlwaysNeedsWhere(sql) ==
    LET sql_lower == Lower(sql)
        k == FirstKeyword(sql_lower, 1)
    IN  IF k # 0
        THEN [safe |-> FALSE,
              reason |-> <<"Dangerous keyword detected: ", DANGEROUS_KEYWORDS[k]>>,
              risk_level |-> "CRITICAL"]
        ELSE IF ~Contains(sql_lower, <<"where">>)
        THEN [safe |-> FALSE,
              reason |-> <<"UPDATE/DELETE without WHERE clause affects all rows", <<>> >>,
              risk_level |-> "CRITICAL"]
        ELSE [safe |-> TRUE, reason |-> <<"", <<>> >>, risk_level |-> "LOW"]

validate_sql_safety(sql) ==
    LET sql_lower == Lower(sql)
        k == FirstKeyword(sql_lower, 1)
    IN  IF k # 0
        THEN [safe |-> FALSE,
              reason |-> <<"Dangerous keyword detected: ", DANGEROUS_KEYWORDS[k]>>,
              risk_level |-> "CRITICAL"]
        ELSE IF (Contains(sql_lower, <<"update">>) \/ Contains(sql_lower, <<"delete">>))
                /\ ~Contains(sql_lower, <<"where">>)
        THEN [safe |-> FALSE,
              reason |-> <<"UPDATE/DELETE without WHERE clause affects all rows", <<>> >>,
              risk_level |-> "CRITICAL"]
        ELSE [safe |-> TRUE, reason |-> <<"", <<>> >>, risk_level |-> "LOW"]

\* analyze_query_context: a word of reference_indicators anywhere in the
\* lower-cased text; the last three turns only when there is one.
reference_indicators ==
    << <<"same">>, <<"previous">>, <<"last">>, <<"above">>, <<"before">>, <<"earlier">>,
       <<"that">>, <<"those">>, <<"this">>, <<"these">>, <<"it">>, <<"them">> >>

LastTurns(h, n) == IF Len(h) > n THEN SubSeq(h, Len(h) - n + 1, Len(h)) ELSE h

RecentContextSize == 3

analyze_query_context(nl_query, conversation_history) ==
    LET query_lower == Lower(nl_query)
        has_reference == \E k \in DOMAIN reference_indicators :
                             Contains(query_lower, reference_indicators[k])
    IN  [has_reference |-> has_reference,
         recent_context |-> IF has_reference /\ conversation_history # <<>>
                            THEN LastTurns(conversation_history, RecentContextSize)
                            ELSE <<>>]

get_database_schema(target_db) ==
    IF target_db \notin SCHEMA
    THEN [error |-> <<"Unknown database: ", <<target_db>> >>]
    ELSE [error |-> NoError]

\* f"{target_db.title()} data - high sensitivity" for the two sensitive names.
SensitivityFactor(target_db) ==
    IF target_db = "finance" THEN "Finance data - high sensitivity"
    ELSE "Healthcare data - high sensitivity"

\* Variant: a DELETE starts at LOW with no factor of its own.
assess_risk_DeleteIsLow(sql_text, operation, target_db) ==
    LET sql == Lower(sql_text)
        nowhere == ~Contains(sql, <<"where">>) /\ operation \in {"UPDATE", "DELETE"}
        l2 == IF nowhere THEN "CRITICAL" ELSE "LOW"
        f2 == IF nowhere THEN <<"No WHERE clause - affects all rows">> ELSE <<>>
        sens == target_db \in {"finance", "healthcare"}
        f3 == IF sens THEN Append(f2, SensitivityFactor(target_db)) ELSE f2
        l3 == IF sens /\ l2 = "LOW" THEN "MEDIUM" ELSE l2
    IN  [level |-> l3, factors |-> f3]

\* Variant: the missing WHERE clause is not looked at.
assess_risk_NoWhereRule(sql_text, operation, target_db) ==
    LET l1 == IF operation = "DELETE" THEN "HIGH" ELSE "LOW"
        f1 == IF operation = "DELETE"
              THEN <<"DELETE operation - data will be permanently removed">> ELSE <<>>
        sens == target_db \in {"finance", "healthcare"}
        f3 == IF sens THEN Append(f1, SensitivityFactor(target_db)) ELSE f1
        l3 == IF sens /\ l1 = "LOW" THEN "MEDIUM" ELSE l1
    IN  [level |-> l3, factors |-> f3]

\* Variant: a sensitive database sets the level to MEDIUM whatever it was.
assess_risk_SensitivityOverrides(sql_text, operation, target_db) ==
    LET sql == Lower(sql_text)
        l1 == IF operation = "DELETE" THEN "HIGH" ELSE "LOW"
        f1 == IF operation = "DELETE"
              THEN <<"DELETE operation - data will be permanently removed">> ELSE <<>>
        nowhere == ~Contains(sql, <<"where">>) /\ operation \in {"UPDATE", "DELETE"}
        l2 == IF nowhere THEN "CRITICAL" ELSE l1
        f2 == IF nowhere THEN Append(f1, "No WHERE clause - affects all rows") ELSE f1
        sens == target_db \in {"finance", "healthcare"}
        f3 == IF sens THEN Append(f2, SensitivityFactor(target_db)) ELSE f2
        l3 == IF sens THEN "MEDIUM" ELSE l2
    IN  [level |-> l3, factors |-> f3]

\* SQLAgentWorkflow._assess_risk
assess_risk(sql_text, operation, target_db) ==
    LET sql == Lower(sql_text)
        l1 == IF operation = "DELETE" THEN "HIGH" ELSE "LOW"
        f1 == IF operation = "DELETE"
              THEN <<"DELETE operation - data will be permanently removed">> ELSE <<>>
        nowhere == ~Contains(sql, <<"where">>) /\ operation \in {"UPDATE", "DELETE"}
        l2 == IF nowhere THEN "CRITICAL" ELSE l1
        f2 == IF nowhere THEN Append(f1, "No WHERE clause - affects all rows") ELSE f1
        sens == target_db \in {"finance", "healthcare"}
        f3 == IF sens THEN Append(f2, SensitivityFactor(target_db)) ELSE f2
        l3 == IF sens /\ l2 = "LOW" THEN "MEDIUM" ELSE l2
    IN  [level |-> l3, factors |-> f3]

\* -------------------------------------------------------- translation graph
\* AgentState, as llm_parse_to_action initialises it.
InitialAgentState(nl_text, target_db, conversation_history) ==
    [nl_query |-> nl_text, conversation_history |-> conversation_history,
     target_db |-> target_db, operation |-> None, sql |-> NoSql, error |-> NoError,
     safety_check |-> [present |-> FALSE, safe |-> FALSE, reason |-> <<"", <<>> >>,
                       risk_level |-> "LOW"],
     hints |-> FALSE, risk_assessment |-> NoRisk, path |-> <<>>,
     metadata |-> [operation |-> None,
                   context_analysis |-> [has_reference |-> FALSE, recent_context |-> <<>>]]]

Visit(state, node) == [state EXCEPT !.path = Append(@, node)]

analyze_context_node(state) ==
    [Visit(state, "analyze_context") EXCEPT !.metadata.context_analysis =
        analyze_query_context(state.nl_query, state.conversation_history)]

retrieve_schema_node(state) ==
    LET s == Visit(state, "retrieve_schema")
        schema_info == get_database_schema(s.target_db)
    IN  IF schema_info.error # NoError THEN [s EXCEPT !.error = schema_info.error] ELSE s

\* llm is the model's reply: "json" (a JSON object with operation and sql),
\* "nojson" (no object found in the text), "badjson" (the text between the
\* braces is not JSON: json.loads raises and the exception is caught).
generate_sql_node(state, llm) ==
    LET s == Visit(state, "generate_sql")
    IN  IF llm.kind = "json"
        THEN [s EXCEPT !.operation = llm.operation, !.sql = NormalizeSql(llm.sql),
                       !.metadata.operation = llm.operation]
        ELSE IF llm.kind = "nojson"
        THEN [s EXCEPT !.error = <<"Failed to parse LLM response", <<>> >>,
                       !.operation = "UNKNOWN"]
        ELSE [s EXCEPT !.error = <<"SQL generation failed: ", <<>> >>,
                       !.operation = "UNKNOWN"]

\* Variant: a text with a word of reference is refused.
validate_safety_node_RefusesReference(state) ==
    LET s == Visit(state, "validate_safety")
    IN  IF s.error # NoError \/ s.sql = NoSql THEN s
        ELSE LET safety_check == validate_sql_safety(s.sql)
                 t == [s EXCEPT !.safety_check =
                          [present |-> TRUE, safe |-> safety_check.safe,
                           reason |-> safety_check.reason,
                           risk_level |-> safety_check.risk_level]]
             IN  IF ~safety_check.safe THEN [t EXCEPT !.error = safety_check.reason]
                 ELSE IF s.metadata.context_analysis.has_reference
                 THEN [t EXCEPT !.error = <<"Unresolved reference", <<>> >>]
                 ELSE t

\* Variant: an unsafe verdict is recorded but does not become the error.
validate_safety_node_KeepsGoing(state) ==
    LET s == Visit(state, "validate_safety")
    IN  IF s.error # NoError \/ s.sql = NoSql THEN s
        ELSE LET safety_check == validate_sql_safety(s.sql)
             IN  [s EXCEPT !.safety_check =
                      [present |-> TRUE, safe |-> safety_check.safe,
                       reason |-> safety_check.reason,
                       risk_level |-> safety_check.risk_level]]

validate_safety_node(state) ==
    LET s == Visit(state, "validate_safety")
    IN  IF s.error # NoError \/ s.sql = NoSql THEN s
        ELSE LET safety_check == validate_sql_safety(s.sql)
                 t == [s EXCEPT !.safety_check =
                          [present |-> TRUE, safe |-> safety_check.safe,
                           reason |-> safety_check.reason,
                           risk_level |-> safety_check.risk_level]]
             IN  IF ~safety_check.safe THEN [t EXCEPT !.error = safety_check.reason] ELSE t

safety_check_router(state) ==
    IF state.error # NoError THEN "unsafe"
    ELSE IF state.safety_check.safe THEN "safe" ELSE "unsafe"

generate_hints_node(state) == [Visit(state, "generate_hints") EXCEPT !.hints = TRUE]

finalize_node(state) ==
    LET s == Visit(state, "finalize")
        op_word == UpperWord(s.operation)
        mapped == IF s.operation = None THEN None
                  ELSE CASE op_word = "SELECT" -> "READ"
                         [] op_word = "INSERT" -> "CREATE"
                         [] op_word = "UPDATE" -> "UPDATE"
                         [] op_word = "DELETE" -> "DELETE"
                         [] OTHER -> "UNKNOWN"
        t == [s EXCEPT !.operation = mapped]
    IN  IF mapped \in {"CREATE", "UPDATE", "DELETE"}
        THEN [t EXCEPT !.risk_assessment = assess_risk(t.sql, mapped, t.target_db)]
        ELSE t

\* workflow.graph.invoke: the edges of _build_graph.
GraphInvoke(initial_state, llm) ==
    LET s1 == analyze_context_node(initial_state)
        s2 == retrieve_schema_node(s1)
        s3 == generate_sql_node(s2, llm)
        s4 == validate_safety_node(s3)
        s5 == IF safety_check_router(s4) = "safe" THEN generate_hints_node(s4) ELSE s4
    IN  finalize_node(s5)

\* The nodes a run of the graph went through, in order; a run in which
\* self.llm.invoke raises ends inside generate_sql.
GraphPath(nl_text, target_db, llm, conversation_history) ==
    GraphInvoke(InitialAgentState(nl_text, target_db, conversation_history), llm).path

RaisedPath(nl_text, target_db, conversation_history) ==
    LET s1 == analyze_context_node(InitialAgentState(nl_text, target_db, conversation_history))
        s2 == retrieve_schema_node(s1)
    IN  Visit(s2, "generate_sql").path

\* Variant: the result keeps the operation of the final state when an error
\* was recorded.
ParseResult_KeepsOperation(nl_text, target_db, llm, conversation_history) ==
    LET final_state ==
            GraphInvoke(InitialAgentState(nl_text, target_db, conversation_history), llm)
    IN  [operation |-> final_state.operation,
         sql |-> final_state.sql,
         risk_assessment |-> final_state.risk_assessment,
         error |-> final_state.error,
         target_db |-> target_db,
         safety_check |-> final_state.safety_check,
         metadata |-> final_state.metadata]

\* The result dictionary llm_parse_to_action builds from the final state.
ParseResult(nl_text, target_db, llm, conversation_history) ==
    LET final_state ==
            GraphInvoke(InitialAgentState(nl_text, target_db, conversation_history), llm)
    IN  [operation |-> IF final_state.error # NoError THEN "UNKNOWN" ELSE final_state.operation,
         sql |-> final_state.sql,
         risk_assessment |-> final_state.risk_assessment,
         error |-> final_state.error,
         target_db |-> target_db,
         safety_check |-> final_state.safety_check,
         metadata |-> final_state.metadata]

\* ------------------------------------------------------------------ inputs
\* Statements the model can return (generate_sql_node) or an operator can
\* submit as a replacement (approve_with_modifications).
SelWhere   == <<"SELECT", " * FROM employees ", "WHERE", " department='Sales'", ";">>
UpdWhere   == <<"UPDATE", " employees SET salary = 0 ", "WHERE", " emp_id = 5", ";">>
UpdRaw     == <<" ", "UPDATE", " employees SET salary = 0 ", "WHERE", " emp_id = 5", ";", ";", " ">>
DelNoWhere == <<"DELETE", " FROM patients", ";">>
DropTable  == <<"DROP", " TABLE employees", ";">>

\* Replies of the language model to one prompt.
LlmReplies ==
    { [kind |-> "json", operation |-> "SELECT", sql |-> SelWhere],
      [kind |-> "json", operation |-> "update", sql |-> UpdRaw],
      [kind |-> "json", operation |-> "DELETE", sql |-> DelNoWhere],
      [kind |-> "nojson", operation |-> None, sql |-> NoSql] }

\* target_db of a request: a configured name and one that is not configured.
TargetDbs == {"finance", "warehouse"}

ModifiedStatements == {UpdWhere, DropTable}

\* The text of a request: one without a word of reference_indicators, one
\* with such a word.
PlainText == <<"show", " ", "employees", " in Sales">>
RefText   == <<"now delete ", "Those", " employees">>

\* More statements, for the requests whose reply is drawn from AllReplies.
SelNoWhere    == <<"SELECT", " * FROM employees", ";">>
SelLastUpdate == <<"SELECT", " last_", "update", "d FROM orders", ";">>
UpdNoWhere    == <<"UPDATE", " employees SET salary = 0", ";">>
DelWhere      == <<"DELETE", " FROM patients ", "WHERE", " patient_id = 3", ";">>
InsRow        == <<"INSERT", " INTO employees (name) VALUES ('Ann')", ";">>
InsDeleted    == <<"INSERT", " INTO audit (is_", "delete", "d) VALUES (0)", ";">>

\* Statements that open with a common table expression; the expression is
\* one piece of text.
CteSelWhere == <<"WITH", " t AS (SELECT 1) ", "SELECT", " * FROM employees ", "WHERE",
                 " emp_id = 5", ";">>
CteUpdWhere == <<"WITH", " t AS (SELECT 1) ", "UPDATE", " employees SET salary = 0 ",
                 "WHERE", " emp_id = 5", ";">>

\* A denylist keyword inside a quoted string and inside a longer word, with a
\* WHERE clause, so that no other rule of the validator applies.
Embedded(kw) == <<"SELECT", " 'x_">> \o kw \o <<"_y' FROM t ", "WHERE", " id = 1", ";">>

KeywordStatements ==
    {Embedded(DANGEROUS_KEYWORDS[k]) : k \in DOMAIN DANGEROUS_KEYWORDS}
    \cup {Embedded(Upper(DANGEROUS_KEYWORDS[k])) : k \in DOMAIN DANGEROUS_KEYWORDS}

AllStatements ==
    KeywordStatements
    \cup {SelWhere, SelNoWhere, SelLastUpdate, UpdWhere, UpdRaw, UpdNoWhere,
          DelWhere, DelNoWhere, InsRow, InsDeleted, CteSelWhere, CteUpdWhere}

\* The operation word of the reply: the four the prompt asks for, one in
\* lower case, and one the prompt does not offer.
OperationWords == {"SELECT", "INSERT", "UPDATE", "DELETE", "delete", "MERGE"}

AllReplies ==
    {[kind |-> "json", operation |-> w, sql |-> q] : w \in OperationWords, q \in AllStatements}
    \cup {[kind |-> k, operation |-> None, sql |-> NoSql] : k \in {"nojson", "badjson"}}

AllDbs == {"hr", "finance", "healthcare", "warehouse"}

\* ------------------------------------------------------------------- state
VARIABLES
    pending,          \* the rows of table pending (data/pending.db), in rowid order
    sqlite_sequence,  \* AUTOINCREMENT: the largest id table pending ever held
    storage_log,      \* the calls made to query_db / execute_db, in order
    history,          \* _conversation_history
    reqs              \* the requests: handler, position in it, locals, response

vars == <<pending, sqlite_sequence, storage_log, history, reqs>>

Requests == 1..MaxRequests

NoItem == [id |-> 0, target_db |-> "", operation |-> "", sql |-> NoSql,
           metadata |-> [text |-> 0, risk_assessment |-> NoRisk], status |-> ""]
NoParsed == [operation |-> None, sql |-> NoSql, risk_assessment |-> NoRisk,
             error |-> NoError, target_db |-> "",
             safety_check |-> [present |-> FALSE, safe |-> FALSE,
                               reason |-> <<"", <<>> >>, risk_level |-> "LOW"],
             metadata |-> [operation |-> None,
                           context_analysis |-> [has_reference |-> FALSE,
                                                 recent_context |-> <<>>]]]
NoResp == [code |-> 0, status |-> "", execution_status |-> "", operation |-> None,
           id |-> 0, item |-> NoItem, detail |-> NoError,
           risk_assessment |-> NoRisk, items |-> <<>>, history_length |-> 0]
IdleReq == [kind |-> "none", pc |-> "idle", target_db |-> "", parsed |-> NoParsed,
            pending_id |-> 0, approve |-> FALSE, modified_sql |-> NoSql,
            item |-> NoItem, resp |-> NoResp, status_filter |-> None, tail |-> <<>>,
            path |-> <<>>]

\* The handler returned (or raised): its locals are gone, the response stays.
Finish(req, resp) ==
    [req EXCEPT !.pc = "done", !.target_db = "", !.parsed = NoParsed,
                !.item = NoItem, !.resp = resp]

\* Requests are numbered in the order in which they arrive.
NumStarted == Cardinality({r \in Requests : reqs[r].kind # "none"})
Arrives(r) == reqs[r].kind = "none" /\ r = NumStarted + 1
InFlight == \E r \in Requests : reqs[r].pc \notin {"idle", "done"}

\* ---------------------------------------------------------- PendingManager
\* Variant: the new row takes the largest id handed out so far.
add_pending_ReusesId(table, seq, target_db, operation, sql, metadata) ==
    Append(table, [id |-> seq, target_db |-> target_db, operation |-> operation,
                   sql |-> sql, metadata |-> metadata, status |-> "PENDING"])

\* INSERT INTO pending (...) with the column default status 'PENDING'.
add_pending(table, seq, target_db, operation, sql, metadata) ==
    Append(table, [id |-> seq + 1, target_db |-> target_db, operation |-> operation,
                   sql |-> sql, metadata |-> metadata, status |-> "PENDING"])

\* SELECT ... WHERE id=? ; fetchone() ; None when there is no row.
get(table, pid) ==
    IF \E i \in DOMAIN table : table[i].id = pid
    THEN table[CHOOSE i \in DOMAIN table : table[i].id = pid]
    ELSE NoItem

\* Variant: the UPDATE is never committed (conn.commit() left out).
set_status_uncommitted(table, pid, status) == table

\* UPDATE pending SET status=? WHERE id=?
set_status(table, pid, status) ==
    [i \in DOMAIN table |->
        IF table[i].id = pid THEN [table[i] EXCEPT !.status = status] ELSE table[i]]

\* Variant: the WHERE clause is left out.
list_pending_Unfiltered(table, status_filter) == table

\* SELECT ... [WHERE status=?]
list_pending(table, status_filter) ==
    SelectSeq(table, LAMBDA row : status_filter = None \/ row.status = status_filter)

\* ------------------------------------------------------------------- db.py
\* One call of query_db / execute_db as the storage layer sees it; req and pid
\* tell which request made it and for which pending row (0: none).
StorageCall(fn, target_db, sql, ok, r, pid) ==
    [fn |-> fn, target_db |-> target_db, sql |-> sql, ok |-> ok, req |-> r, pid |-> pid]

\* get_connection raises for a name outside DB_MAP; otherwise the statement
\* succeeds or fails in SQLite.
Outcomes(target_db) == IF target_db \in DB_MAP THEN BOOLEAN ELSE {FALSE}

\* What a call leaves in the target database. query_db runs cur.execute and
\* closes the connection without commit; execute_db commits. The sqlite3
\* module opens a transaction before a statement whose first word is INSERT,
\* UPDATE, DELETE or REPLACE, and close() rolls it back; any other statement
\* runs in SQLite's autocommit mode and is committed when it ends.
FirstWord(sql) ==
    LET s == Lower(StripLeft(sql, " ")) IN IF s = <<>> THEN "" ELSE Head(s)

is_dml(sql) == FirstWord(sql) \in {"insert", "update", "delete", "replace"}

\* The verb of a statement: its first word, or the word after the common
\* table expression.
StatementVerb(sql) ==
    LET s == Lower(StripLeft(sql, " "))
    IN  IF FirstWord(sql) = "with" /\ Len(s) >= 3 THEN s[3] ELSE FirstWord(sql)

WritingVerbs == {"insert", "update", "delete", "replace", "drop"}

CommittedChange(call) ==
    /\ call.ok
    /\ StatementVerb(call.sql) \in WritingVerbs
    /\ call.fn = "execute_db" \/ ~is_dml(call.sql)

\* ----------------------------------------------------------------- history
HistoryCap == 10

\* _conversation_history.append(...) and the cut to the last ten entries.
RecordTurn(h, turn) ==
    LET a == Append(h, turn)
    IN  IF Len(a) > HistoryCap THEN SubSeq(a, Len(a) - HistoryCap + 1, Len(a)) ELSE a

\* ------------------------------------------------------------------- Init
Init ==
    /\ pending = <<>>
    /\ sqlite_sequence = 0
    /\ storage_log = <<>>
    /\ history = <<>>
    /\ reqs = [r \in Requests |-> IdleReq]

Resp(code, status) == [NoResp EXCEPT !.code = code, !.status = status]

\* ------------------------------------------------------- POST /nl-query
\* llm_parse_to_action: the graph runs, the turn is recorded.
NlQueryTranslateWith(r, texts, dbs, replies) ==
    /\ Arrives(r)
    /\ \E nl_text \in texts, target_db \in dbs, llm \in replies :
          LET parsed == ParseResult(nl_text, target_db, llm, history)
          IN  /\ history' = RecordTurn(history, [query |-> r, operation |-> parsed.operation,
                                                 target_db |-> target_db])
              /\ reqs' = [reqs EXCEPT ![r] =
                            [IdleReq EXCEPT !.kind = "nl_query", !.pc = "dispatch",
                                            !.target_db = target_db, !.parsed = parsed,
                                            !.path = GraphPath(nl_text, target_db, llm,
                                                               history)]]
    /\ UNCHANGED <<pending, sqlite_sequence, storage_log>>

NlQueryTranslateFrom(r, dbs, replies) == NlQueryTranslateWith(r, {PlainText}, dbs, replies)

NlQueryTranslate(r) == NlQueryTranslateFrom(r, TargetDbs, LlmReplies)

\* The same step for a request whose text is any of NlTexts.
NlTexts == {PlainText, RefText}

NlQueryTranslateText(r) == NlQueryTranslateWith(r, NlTexts, TargetDbs, LlmReplies)

\* The same step for a request whose database and reply are any of AllDbs,
\* AllReplies.
NlQueryTranslateAny(r) == NlQueryTranslateFrom(r, AllDbs, AllReplies)

\* self.llm.invoke raises (no key, no network): nothing is caught on the way
\* up, the request ends with a server error and no turn is recorded.
NlQueryLlmRaises(r) ==
    /\ Arrives(r)
    /\ \E target_db \in TargetDbs :
          reqs' = [reqs EXCEPT ![r] =
                     Finish([IdleReq EXCEPT !.kind = "nl_query",
                                            !.path = RaisedPath(PlainText, target_db, history)],
                            Resp(500, "error"))]
    /\ UNCHANGED <<pending, sqlite_sequence, storage_log, history>>

\* Variant: the READ branch also files the statement for approval.
NlQueryRead_AlsoQueues(r) ==
    LET req == reqs[r]
    IN  /\ req.kind = "nl_query" /\ req.pc = "dispatch"
        /\ req.parsed.operation = "READ"
        /\ \E ok \in Outcomes(req.target_db) :
              /\ storage_log' = Append(storage_log,
                     StorageCall("query_db", req.target_db, req.parsed.sql, ok, r, 0))
              /\ reqs' = [reqs EXCEPT ![r] =
                    IF ok
                    THEN Finish(req, [Resp(200, "ok") EXCEPT
                                         !.operation = req.parsed.operation,
                                         !.execution_status = "executed_directly"])
                    ELSE Finish(req, [Resp(400, "error") EXCEPT
                                         !.detail = <<"storage error", <<>> >>])]
        /\ pending' = add_pending(pending, sqlite_sequence, req.target_db,
                                  req.parsed.operation, req.parsed.sql,
                                  [text |-> r, risk_assessment |-> req.parsed.risk_assessment])
        /\ sqlite_sequence' = sqlite_sequence + 1
        /\ UNCHANGED history

\* op == 'READ': query_db at once.
NlQueryRead(r) ==
    LET req == reqs[r]
    IN  /\ req.kind = "nl_query" /\ req.pc = "dispatch"
        /\ req.parsed.operation = "READ"
        /\ \E ok \in Outcomes(req.target_db) :
              /\ storage_log' = Append(storage_log,
                     StorageCall("query_db", req.target_db, req.parsed.sql, ok, r, 0))
              /\ reqs' = [reqs EXCEPT ![r] =
                    IF ok
                    THEN Finish(req, [Resp(200, "ok") EXCEPT
                                         !.operation = req.parsed.operation,
                                         !.execution_status = "executed_directly"])
                    ELSE Finish(req, [Resp(400, "error") EXCEPT
                                         !.detail = <<"storage error", <<>> >>])]
        /\ UNCHANGED <<pending, sqlite_sequence, history>>

\* Variant: the mutation is executed when it is filed.
NlQueryQueue_ExecutesAtOnce(r) ==
    LET req == reqs[r]
    IN  /\ req.kind = "nl_query" /\ req.pc = "dispatch"
        /\ req.parsed.operation \in {"CREATE", "UPDATE", "DELETE"}
        /\ pending' = add_pending(pending, sqlite_sequence, req.target_db,
                                  req.parsed.operation, req.parsed.sql,
                                  [text |-> r, risk_assessment |-> req.parsed.risk_assessment])
        /\ sqlite_sequence' = sqlite_sequence + 1
        /\ reqs' = [reqs EXCEPT ![r] =
              Finish(req, [Resp(200, "pending_approval") EXCEPT
                              !.operation = req.parsed.operation,
                              !.id = sqlite_sequence + 1,
                              !.execution_status = "requires_human_approval",
                              !.risk_assessment = req.parsed.risk_assessment])]
        /\ storage_log' = Append(storage_log,
               StorageCall("execute_db", req.target_db, req.parsed.sql, TRUE, r,
                           sqlite_sequence + 1))
        /\ UNCHANGED history

\* op in ('CREATE','UPDATE','DELETE'): add_pending, nothing is executed.
NlQueryQueue(r) ==
    LET req == reqs[r]
    IN  /\ req.kind = "nl_query" /\ req.pc = "dispatch"
        /\ req.parsed.operation \in {"CREATE", "UPDATE", "DELETE"}
        /\ pending' = add_pending(pending, sqlite_sequence, req.target_db,
                                  req.parsed.operation, req.parsed.sql,
                                  [text |-> r, risk_assessment |-> req.parsed.risk_assessment])
        /\ sqlite_sequence' = sqlite_sequence + 1
        /\ reqs' = [reqs EXCEPT ![r] =
              Finish(req, [Resp(200, "pending_approval") EXCEPT
                              !.operation = req.parsed.operation,
                              !.id = sqlite_sequence + 1,
                              !.execution_status = "requires_human_approval",
                              !.risk_assessment = req.parsed.risk_assessment])]
        /\ UNCHANGED <<storage_log, history>>

\* Variant: the last branch files the statement before it answers 400.
NlQueryRefuse_QueuesAnyway(r) ==
    LET req == reqs[r]
    IN  /\ req.kind = "nl_query" /\ req.pc = "dispatch"
        /\ req.parsed.operation \notin {"READ", "CREATE", "UPDATE", "DELETE"}
        /\ pending' = add_pending(pending, sqlite_sequence, req.target_db,
                                  req.parsed.operation, req.parsed.sql,
                                  [text |-> r, risk_assessment |-> req.parsed.risk_assessment])
        /\ sqlite_sequence' = sqlite_sequence + 1
        /\ reqs' = [reqs EXCEPT ![r] =
              Finish(req, [Resp(400, "error") EXCEPT !.detail = req.parsed.error])]
        /\ UNCHANGED <<storage_log, history>>

\* any other operation: HTTP 400 with the error of the workflow.
NlQueryRefuse(r) ==
    LET req == reqs[r]
    IN  /\ req.kind = "nl_query" /\ req.pc = "dispatch"
        /\ req.parsed.operation \notin {"READ", "CREATE", "UPDATE", "DELETE"}
        /\ reqs' = [reqs EXCEPT ![r] =
              Finish(req, [Resp(400, "error") EXCEPT !.detail = req.parsed.error])]
        /\ UNCHANGED <<pending, sqlite_sequence, storage_log, history>>

\* -------------------------------------------------------- POST /confirm
\* Variant: req.approve is not looked at, every decision is an approval.
ConfirmGet_IgnoresApprove(r) ==
    /\ Arrives(r)
    /\ \E pid \in 1..(sqlite_sequence + 1), approve \in BOOLEAN :
          LET item == get(pending, pid)
              req  == [IdleReq EXCEPT !.kind = "confirm", !.pending_id = pid,
                                      !.approve = approve]
          IN  reqs' = [reqs EXCEPT ![r] =
                 IF item.id = 0 THEN Finish(req, Resp(404, "Pending not found"))
                 ELSE IF item.status # "PENDING"
                 THEN Finish(req, [Resp(200, "noop") EXCEPT !.item = item])
                 ELSE [req EXCEPT !.item = item, !.pc = "execute"]]
    /\ UNCHANGED <<pending, sqlite_sequence, storage_log, history>>

\* Variant: a missing row is answered like a row that was decided already.
ConfirmGet_MissingIsNoop(r) ==
    /\ Arrives(r)
    /\ \E pid \in 1..(sqlite_sequence + 1), approve \in BOOLEAN :
          LET item == get(pending, pid)
              req  == [IdleReq EXCEPT !.kind = "confirm", !.pending_id = pid,
                                      !.approve = approve]
          IN  reqs' = [reqs EXCEPT ![r] =
                 IF item.id = 0 \/ item.status # "PENDING"
                 THEN Finish(req, [Resp(200, "noop") EXCEPT !.item = item])
                 ELSE [req EXCEPT !.item = item,
                                  !.pc = IF approve THEN "execute" ELSE "reject"]]
    /\ UNCHANGED <<pending, sqlite_sequence, storage_log, history>>

\* pending.get and the two early returns.
ConfirmGet(r) ==
    /\ Arrives(r)
    /\ \E pid \in 1..(sqlite_sequence + 1), approve \in BOOLEAN :
          LET item == get(pending, pid)
              req  == [IdleReq EXCEPT !.kind = "confirm", !.pending_id = pid,
                                      !.approve = approve]
          IN  reqs' = [reqs EXCEPT ![r] =
                 IF item.id = 0 THEN Finish(req, Resp(404, "Pending not found"))
                 ELSE IF item.status # "PENDING"
                 THEN Finish(req, [Resp(200, "noop") EXCEPT !.item = item])
                 ELSE [req EXCEPT !.item = item,
                                  !.pc = IF approve THEN "execute" ELSE "reject"]]
    /\ UNCHANGED <<pending, sqlite_sequence, storage_log, history>>

\* Variant: the exception of execute_db is swallowed and the handler goes on.
ConfirmExecute_SwallowsFailure(r) ==
    LET req == reqs[r]
    IN  /\ req.kind = "confirm" /\ req.pc = "execute"
        /\ \E ok \in Outcomes(req.item.target_db) :
              /\ storage_log' = Append(storage_log,
                     StorageCall("execute_db", req.item.target_db, req.item.sql, ok, r,
                                 req.pending_id))
              /\ reqs' = [reqs EXCEPT ![r] = [req EXCEPT !.pc = "set_approved"]]
        /\ UNCHANGED <<pending, sqlite_sequence, history>>

\* execute_db(item['target_db'], item['sql']); an exception becomes HTTP 400.
ConfirmExecute(r) ==
    LET req == reqs[r]
    IN  /\ req.kind = "confirm" /\ req.pc = "execute"
        /\ \E ok \in Outcomes(req.item.target_db) :
              /\ storage_log' = Append(storage_log,
                     StorageCall("execute_db", req.item.target_db, req.item.sql, ok, r,
                                 req.pending_id))
              /\ reqs' = [reqs EXCEPT ![r] =
                    IF ok THEN [req EXCEPT !.pc = "set_approved"]
                    ELSE Finish(req, [Resp(400, "error") EXCEPT
                                         !.detail = <<"storage error", <<>> >>])]
        /\ UNCHANGED <<pending, sqlite_sequence, history>>

\* pending.set_status(req.pending_id, 'APPROVED')
ConfirmSetApproved(r) ==
    LET req == reqs[r]
    IN  /\ req.kind = "confirm" /\ req.pc = "set_approved"
        /\ pending' = set_status(pending, req.pending_id, "APPROVED")
        /\ reqs' = [reqs EXCEPT ![r] =
              Finish(req, [Resp(200, "approved") EXCEPT !.id = req.pending_id])]
        /\ UNCHANGED <<sqlite_sequence, storage_log, history>>

\* pending.set_status(req.pending_id, 'REJECTED')
ConfirmSetRejected(r) ==
    LET req == reqs[r]
    IN  /\ req.kind = "confirm" /\ req.pc = "reject"
        /\ pending' = set_status(pending, req.pending_id, "REJECTED")
        /\ reqs' = [reqs EXCEPT ![r] =
              Finish(req, [Resp(200, "rejected") EXCEPT !.id = req.pending_id])]
        /\ UNCHANGED <<sqlite_sequence, storage_log, history>>

\* ---------------------------- POST /pending/{pid}/approve-with-modifications
ModifyGet(r) ==
    /\ Arrives(r)
    /\ \E pid \in 1..(sqlite_sequence + 1), modified_sql \in ModifiedStatements :
          LET item == get(pending, pid)
              req  == [IdleReq EXCEPT !.kind = "approve_with_modifications",
                                      !.pending_id = pid, !.approve = TRUE,
                                      !.modified_sql = modified_sql]
          IN  reqs' = [reqs EXCEPT ![r] =
                 IF item.id = 0 THEN Finish(req, Resp(404, "Pending operation not found"))
                 ELSE IF item.status # "PENDING"
                 THEN Finish(req, [Resp(200, "noop") EXCEPT !.item = item])
                 ELSE [req EXCEPT !.item = item, !.pc = "execute"]]
    /\ UNCHANGED <<pending, sqlite_sequence, storage_log, history>>

\* Variant: the exception of execute_db is swallowed and the handler goes on.
ModifyExecute_SwallowsFailure(r) ==
    LET req == reqs[r]
    IN  /\ req.kind = "approve_with_modifications" /\ req.pc = "execute"
        /\ \E ok \in Outcomes(req.item.target_db) :
              /\ storage_log' = Append(storage_log,
                     StorageCall("execute_db", req.item.target_db, req.modified_sql, ok, r,
                                 req.pending_id))
              /\ reqs' = [reqs EXCEPT ![r] = [req EXCEPT !.pc = "set_approved"]]
        /\ UNCHANGED <<pending, sqlite_sequence, history>>

\* Variant: the replacement goes through validate_sql_safety first.
ModifyExecute_Validates(r) ==
    LET req == reqs[r]
    IN  /\ req.kind = "approve_with_modifications" /\ req.pc = "execute"
        /\ IF validate_sql_safety(req.modified_sql).safe
           THEN \E ok \in Outcomes(req.item.target_db) :
                  /\ storage_log' = Append(storage_log,
                         StorageCall("execute_db", req.item.target_db, req.modified_sql,
                                     ok, r, req.pending_id))
                  /\ reqs' = [reqs EXCEPT ![r] =
                        IF ok THEN [req EXCEPT !.pc = "set_approved"]
                        ELSE Finish(req, [Resp(400, "error") EXCEPT
                                             !.detail = <<"storage error", <<>> >>])]
           ELSE /\ storage_log' = storage_log
                /\ reqs' = [reqs EXCEPT ![r] =
                      Finish(req, [Resp(400, "error") EXCEPT
                                      !.detail = validate_sql_safety(req.modified_sql).reason])]
        /\ UNCHANGED <<pending, sqlite_sequence, history>>

\* execute_db(item['target_db'], modified_sql)
ModifyExecute(r) ==
    LET req == reqs[r]
    IN  /\ req.kind = "approve_with_modifications" /\ req.pc = "execute"
        /\ \E ok \in Outcomes(req.item.target_db) :
              /\ storage_log' = Append(storage_log,
                     StorageCall("execute_db", req.item.target_db, req.modified_sql, ok, r,
                                 req.pending_id))
              /\ reqs' = [reqs EXCEPT ![r] =
                    IF ok THEN [req EXCEPT !.pc = "set_approved"]
                    ELSE Finish(req, [Resp(400, "error") EXCEPT
                                         !.detail = <<"storage error", <<>> >>])]
        /\ UNCHANGED <<pending, sqlite_sequence, history>>

\* Variant: the replacement statement is written into the row.
ModifySetApproved_StoresReplacement(r) ==
    LET req == reqs[r]
    IN  /\ req.kind = "approve_with_modifications" /\ req.pc = "set_approved"
        /\ pending' = [i \in DOMAIN pending |->
              IF pending[i].id = req.pending_id
              THEN [pending[i] EXCEPT !.status = "APPROVED", !.sql = req.modified_sql]
              ELSE pending[i]]
        /\ reqs' = [reqs EXCEPT ![r] =
              Finish(req, [Resp(200, "approved_with_modifications") EXCEPT
                              !.id = req.pending_id, !.item = req.item])]
        /\ UNCHANGED <<sqlite_sequence, storage_log, history>>

\* pending.set_status(pid, 'APPROVED')
ModifySetApproved(r) ==
    LET req == reqs[r]
    IN  /\ req.kind = "approve_with_modifications" /\ req.pc = "set_approved"
        /\ pending' = set_status(pending, req.pending_id, "APPROVED")
        /\ reqs' = [reqs EXCEPT ![r] =
              Finish(req, [Resp(200, "approved_with_modifications") EXCEPT
                              !.id = req.pending_id, !.item = req.item])]
        /\ UNCHANGED <<sqlite_sequence, storage_log, history>>

\* ------------------------------------------------- set_status raising
\* sqlite3 raises in set_status (the database is locked by another writer,
\* the disk is full): nothing is committed. In confirm with approve and in
\* approve_with_modifications the call stands inside the try and the request
\* ends with HTTP 400; in the reject branch nothing catches the exception.
ConfirmSetApprovedRaises(r) ==
    LET req == reqs[r]
    IN  /\ req.kind = "confirm" /\ req.pc = "set_approved"
        /\ reqs' = [reqs EXCEPT ![r] =
              Finish(req, [Resp(400, "error") EXCEPT !.detail = <<"storage error", <<>> >>])]
        /\ UNCHANGED <<pending, sqlite_sequence, storage_log, history>>

ConfirmSetRejectedRaises(r) ==
    LET req == reqs[r]
    IN  /\ req.kind = "confirm" /\ req.pc = "reject"
        /\ reqs' = [reqs EXCEPT ![r] = Finish(req, Resp(500, "error"))]
        /\ UNCHANGED <<pending, sqlite_sequence, storage_log, history>>

ModifySetApprovedRaises(r) ==
    LET req == reqs[r]
    IN  /\ req.kind = "approve_with_modifications" /\ req.pc = "set_approved"
        /\ reqs' = [reqs EXCEPT ![r] =
              Finish(req, [Resp(400, "error") EXCEPT !.detail = <<"storage error", <<>> >>])]
        /\ UNCHANGED <<pending, sqlite_sequence, storage_log, history>>

\* ------------------------------------------------------ the read endpoints
\* _get_risk_recommendation
get_risk_recommendation(risk_level) ==
    CASE risk_level = "LOW"      -> "Operation appears safe to approve"
      [] risk_level = "MEDIUM"   -> "Review operation carefully before approval"
      [] risk_level = "HIGH"     -> "Requires thorough review and confirmation"
      [] risk_level = "CRITICAL" -> "DO NOT APPROVE without extensive review and backup"
      [] OTHER                   -> "Unknown risk level"

\* The manual assessment of _assess_operation_risk (no risk in the metadata).
manual_assessment(item) ==
    LET sql == Lower(item.sql)
        operation == item.operation
        target_db == item.target_db
        l1 == IF operation = "DELETE" THEN "HIGH" ELSE "LOW"
        f1 == IF operation = "DELETE"
              THEN <<"DELETE operation - data will be permanently removed">> ELSE <<>>
        nowhere == ~Contains(sql, <<"where">>) /\ operation \in {"UPDATE", "DELETE"}
        l2 == IF nowhere THEN "CRITICAL" ELSE l1
        f2 == IF nowhere THEN Append(f1, "No WHERE clause - affects all rows") ELSE f1
        ddl == Contains(sql, <<"drop">>) \/ Contains(sql, <<"truncate">>)
        l3 == IF ddl THEN "CRITICAL" ELSE l2
        f3 == IF ddl THEN Append(f2, "Table structure modification") ELSE f2
        f4 == IF target_db = "finance"
              THEN Append(f3, "Financial data - high sensitivity") ELSE f3
        l4 == IF target_db = "finance" /\ l3 = "LOW" THEN "MEDIUM" ELSE l3
        f5 == IF target_db = "healthcare"
              THEN Append(f4, "Healthcare data - HIPAA compliance required") ELSE f4
        l5 == IF target_db = "healthcare" /\ l4 = "LOW" THEN "MEDIUM" ELSE l4
    IN  [level |-> l5, factors |-> f5, recommendation |-> get_risk_recommendation(l5)]

\* Variant: the assessment is always made afresh.
assess_operation_risk_Recomputes(item) == manual_assessment(item)

\* _assess_operation_risk: the assessment in the metadata when there is one.
assess_operation_risk(item) ==
    IF "risk_assessment" \in DOMAIN item.metadata
    THEN item.metadata.risk_assessment
    ELSE manual_assessment(item)

\* metadata.get('risk_assessment', {})
metadata_risk(item) ==
    IF "risk_assessment" \in DOMAIN item.metadata
    THEN item.metadata.risk_assessment
    ELSE NoRisk

\* GET /pending?status=... ; an empty status selects every row.
ListPending(r) ==
    /\ Arrives(r)
    /\ \E status \in {"PENDING", "APPROVED", "REJECTED", None} :
          LET pending_items == list_pending(pending, status)
          IN  reqs' = [reqs EXCEPT ![r] =
                 Finish([IdleReq EXCEPT !.kind = "list_pending", !.status_filter = status],
                        [Resp(200, "ok") EXCEPT !.items =
                            [k \in DOMAIN pending_items |->
                                [item |-> pending_items[k],
                                 risk_assessment |-> metadata_risk(pending_items[k])]]])]
    /\ UNCHANGED <<pending, sqlite_sequence, storage_log, history>>

\* GET /pending/{pid}
GetPending(r) ==
    /\ Arrives(r)
    /\ \E pid \in 1..(sqlite_sequence + 1) :
          LET item == get(pending, pid)
              req  == [IdleReq EXCEPT !.kind = "get_pending", !.pending_id = pid]
          IN  reqs' = [reqs EXCEPT ![r] =
                 IF item.id = 0 THEN Finish(req, Resp(404, "Pending not found"))
                 ELSE Finish(req, [Resp(200, "ok") EXCEPT
                                      !.item = item,
                                      !.risk_assessment = metadata_risk(item)])]
    /\ UNCHANGED <<pending, sqlite_sequence, storage_log, history>>

\* GET /pending/{pid}/details
GetPendingDetails(r) ==
    /\ Arrives(r)
    /\ \E pid \in 1..(sqlite_sequence + 1) :
          LET item == get(pending, pid)
              req  == [IdleReq EXCEPT !.kind = "get_pending_details", !.pending_id = pid]
          IN  reqs' = [reqs EXCEPT ![r] =
                 IF item.id = 0 THEN Finish(req, Resp(404, "Pending operation not found"))
                 ELSE Finish(req, [Resp(200, "success") EXCEPT
                                      !.item = item,
                                      !.risk_assessment = assess_operation_risk(item)])]
    /\ UNCHANGED <<pending, sqlite_sequence, storage_log, history>>

\* ----------------------------------------------------- process restart
\* Variant: the process starts on a fresh pending.db.
Restart_OnFreshStore(r) ==
    /\ Arrives(r)
    /\ reqs' = [q \in Requests |->
          IF q = r THEN Finish([IdleReq EXCEPT !.kind = "restart"], Resp(0, "restarted"))
          ELSE IF reqs[q].pc \notin {"idle", "done"}
          THEN Finish(reqs[q], Resp(0, "aborted"))
          ELSE reqs[q]]
    /\ history' = <<>>
    /\ pending' = <<>>
    /\ sqlite_sequence' = 0
    /\ UNCHANGED storage_log

\* The process is stopped and started again; the restart takes a place among
\* the requests of the run.  data/pending.db and the target databases are
\* files and stay (CREATE TABLE IF NOT EXISTS); _conversation_history is a
\* module-level list and starts empty; the handlers that were running are
\* gone and their callers get no answer.
Restart(r) ==
    /\ Arrives(r)
    /\ reqs' = [q \in Requests |->
          IF q = r THEN Finish([IdleReq EXCEPT !.kind = "restart"], Resp(0, "restarted"))
          ELSE IF reqs[q].pc \notin {"idle", "done"}
          THEN Finish(reqs[q], Resp(0, "aborted"))
          ELSE reqs[q]]
    /\ history' = <<>>
    /\ UNCHANGED <<pending, sqlite_sequence, storage_log>>

\* ------------------------------------------- llm_parse_to_action, step by step
\* The steps of llm_parse_to_action as other requests can interleave with
\* them: the copy of the history and the run of the graph, the append, the
\* test of the length with the read of the last ten entries, the assignment
\* of those entries to the list. No lock is held; at which of these points
\* another thread can run depends on the interpreter, and each of them is
\* allowed here. The requests are for a configured database.
NlQueryInvoke(r) ==
    /\ Arrives(r)
    /\ \E target_db \in TargetDbs \cap SCHEMA, llm \in LlmReplies :
          reqs' = [reqs EXCEPT ![r] =
                     [IdleReq EXCEPT !.kind = "nl_query", !.pc = "append",
                                     !.target_db = target_db,
                                     !.parsed = ParseResult(PlainText, target_db, llm, history),
                                     !.path = GraphPath(PlainText, target_db, llm, history)]]
    /\ UNCHANGED <<pending, sqlite_sequence, storage_log, history>>

NlQueryAppend(r) ==
    LET req == reqs[r]
    IN  /\ req.kind = "nl_query" /\ req.pc = "append"
        /\ history' = Append(history, [query |-> r, operation |-> req.parsed.operation,
                                       target_db |-> req.target_db])
        /\ reqs' = [reqs EXCEPT ![r].pc = "keep_recent"]
        /\ UNCHANGED <<pending, sqlite_sequence, storage_log>>

NlQueryKeepRecent(r) ==
    LET req == reqs[r]
    IN  /\ req.kind = "nl_query" /\ req.pc = "keep_recent"
        /\ reqs' = [reqs EXCEPT ![r] =
                      IF Len(history) > HistoryCap
                      THEN [req EXCEPT !.pc = "assign",
                                       !.tail = LastTurns(history, HistoryCap)]
                      ELSE [req EXCEPT !.pc = "dispatch"]]
        /\ UNCHANGED <<pending, sqlite_sequence, storage_log, history>>

NlQueryAssign(r) ==
    LET req == reqs[r]
    IN  /\ req.kind = "nl_query" /\ req.pc = "assign"
        /\ history' = req.tail
        /\ reqs' = [reqs EXCEPT ![r] = [req EXCEPT !.pc = "dispatch", !.tail = <<>>]]
        /\ UNCHANGED <<pending, sqlite_sequence, storage_log>>

\* GET /test/conversation-history
GetConversationHistory(r) ==
    /\ Arrives(r)
    /\ reqs' = [reqs EXCEPT ![r] =
          Finish([IdleReq EXCEPT !.kind = "get_conversation_history"],
                 [Resp(200, "success") EXCEPT !.history_length = Len(history),
                                              !.items = LastTurns(history, HistoryCap)])]
    /\ UNCHANGED <<pending, sqlite_sequence, storage_log, history>>

\* The process as it is after earlier requests were answered: the history
\* holds their turns, numbered below 1, the oldest first.
PriorLengths == {HistoryCap - 1, HistoryCap}

PriorTurns(n) ==
    [k \in 1 .. n |-> [query |-> k - n, operation |-> "UNKNOWN", target_db |-> "warehouse"]]

HistoryInit ==
    /\ pending = <<>>
    /\ sqlite_sequence = 0
    /\ storage_log = <<>>
    /\ history \in {PriorTurns(n) : n \in PriorLengths}
    /\ reqs = [r \in Requests |-> IdleReq]

\* ------------------------------------------------------------------- Next
Next ==
    \E r \in Requests :
        \/ NlQueryTranslate(r)
        \/ NlQueryLlmRaises(r)
        \/ NlQueryRead(r)
        \/ NlQueryQueue(r)
        \/ NlQueryRefuse(r)
        \/ ConfirmGet(r)
        \/ ConfirmExecute(r)
        \/ ConfirmSetApproved(r)
        \/ ConfirmSetRejected(r)
        \/ ModifyGet(r)
        \/ ModifyExecute(r)
        \/ ModifySetApproved(r)

Spec == Init /\ [][Next]_vars

\* The same handlers when every request is answered before the next arrives.
SeqNext ==
    \E r \in Requests :
        \/ ~InFlight /\ NlQueryTranslate(r)
        \/ ~InFlight /\ NlQueryLlmRaises(r)
        \/ NlQueryRead(r)
        \/ NlQueryQueue(r)
        \/ NlQueryRefuse(r)
        \/ ~InFlight /\ ConfirmGet(r)
        \/ ConfirmExecute(r)
        \/ ConfirmSetApproved(r)
        \/ ConfirmSetRejected(r)
        \/ ~InFlight /\ ModifyGet(r)
        \/ ModifyExecute(r)
        \/ ModifySetApproved(r)

SeqSpec == Init /\ [][SeqNext]_vars

\* POST /nl-query alone: a first request as in Spec, then one whose database
\* and reply are any of AllDbs, AllReplies; each is answered before the next
\* arrives.
GateNext ==
    \E r \in Requests :
        \/ ~InFlight /\ NumStarted = 0 /\ NlQueryTranslate(r)
        \/ ~InFlight /\ NumStarted = 1 /\ NlQueryTranslateAny(r)
        \/ ~InFlight /\ NumStarted <= 1 /\ NlQueryLlmRaises(r)
        \/ NlQueryRead(r)
        \/ NlQueryQueue(r)
        \/ NlQueryRefuse(r)

GateSpec == Init /\ [][GateNext]_vars

\* Every handler of Spec and the three read endpoints, all of them concurrent.
ReadNext ==
    \E r \in Requests :
        \/ NlQueryTranslate(r)
        \/ NlQueryLlmRaises(r)
        \/ NlQueryRead(r)
        \/ NlQueryQueue(r)
        \/ NlQueryRefuse(r)
        \/ ConfirmGet(r)
        \/ ConfirmExecute(r)
        \/ ConfirmSetApproved(r)
        \/ ConfirmSetRejected(r)
        \/ ModifyGet(r)
        \/ ModifyExecute(r)
        \/ ModifySetApproved(r)
        \/ ListPending(r)
        \/ GetPending(r)
        \/ GetPendingDetails(r)

ReadSpec == Init /\ [][ReadNext]_vars

\* The handlers of Spec, all concurrent, and restarts of the process.
RestartNext ==
    \E r \in Requests :
        \/ NlQueryTranslate(r)
        \/ NlQueryLlmRaises(r)
        \/ NlQueryRead(r)
        \/ NlQueryQueue(r)
        \/ NlQueryRefuse(r)
        \/ ConfirmGet(r)
        \/ ConfirmExecute(r)
        \/ ConfirmSetApproved(r)
        \/ ConfirmSetRejected(r)
        \/ ModifyGet(r)
        \/ ModifyExecute(r)
        \/ ModifySetApproved(r)
        \/ Restart(r)

RestartSpec == Init /\ [][RestartNext]_vars

\* Every handler of Spec, with set_status able to raise.
FaultNext ==
    \/ Next
    \/ \E r \in Requests :
          \/ ConfirmSetApprovedRaises(r)
          \/ ConfirmSetRejectedRaises(r)
          \/ ModifySetApprovedRaises(r)

FaultSpec == Init /\ [][FaultNext]_vars

\* POST /nl-query alone, the text of a request any of NlTexts, the requests
\* concurrent.
ContextNext ==
    \E r \in Requests :
        \/ NlQueryTranslateText(r)
        \/ NlQueryLlmRaises(r)
        \/ NlQueryRead(r)
        \/ NlQueryQueue(r)
        \/ NlQueryRefuse(r)

ContextSpec == Init /\ [][ContextNext]_vars

\* POST /nl-query with llm_parse_to_action step by step, and the read of the
\* history, all of them concurrent.
HistoryNext ==
    \E r \in Requests :
        \/ NlQueryInvoke(r)
        \/ NlQueryLlmRaises(r)
        \/ NlQueryAppend(r)
        \/ NlQueryKeepRecent(r)
        \/ NlQueryAssign(r)
        \/ NlQueryRead(r)
        \/ NlQueryQueue(r)
        \/ NlQueryRefuse(r)
        \/ GetConversationHistory(r)

HistorySpec == HistoryInit /\ [][HistoryNext]_vars

\* ---------------------------------------------------------------- helpers
Decisions == {"confirm", "approve_with_modifications"}
Mutations == {"CREATE", "UPDATE", "DELETE"}
Statuses == {"PENDING", "APPROVED", "REJECTED"}

Done(r) == reqs[r].pc = "done"
IsDecision(r) == reqs[r].kind \in Decisions
\* The decision was carried out: the handler answered approved / rejected.
Won(r) ==
    /\ Done(r) /\ IsDecision(r)
    /\ reqs[r].resp.status \in {"approved", "rejected", "approved_with_modifications"}
WonStatus(r) == IF reqs[r].resp.status = "rejected" THEN "REJECTED" ELSE "APPROVED"

CallsBy(r) == {k \in DOMAIN storage_log : storage_log[k].req = r}
Executions(pid) ==
    {k \in DOMAIN storage_log : storage_log[k].fn = "execute_db" /\ storage_log[k].pid = pid}
SuccessfulExecutions(pid) == {k \in Executions(pid) : storage_log[k].ok}
RowsOf(r) == {i \in DOMAIN pending : pending[i].metadata.text = r}
\* Request r takes a step of its handler.
Steps(r) == reqs'[r] # reqs[r]

\* ------------------------------------------------------------------ C1
\* C1: under concurrent approval calls for one pending id the storage layer
\* runs the statement at most once.  Stated in its weakest reading: at most one
\* call of execute_db for an id succeeds (a call that failed may be repeated).
C1_AtMostOnceExecution ==
    \A pid \in 1..sqlite_sequence : Cardinality(SuccessfulExecutions(pid)) <= 1

\* ------------------------------------------------------------------ C2
\* C2: of the decision calls on one pending row at most one is carried out
\* (answers approved / rejected); every other one is a no-op.
C2_OneWinningDecision ==
    \A r1, r2 \in Requests :
        (r1 # r2 /\ Won(r1) /\ Won(r2)) => reqs[r1].pending_id # reqs[r2].pending_id

\* ------------------------------------------------------------------ C3
\* C3: the status of a row is terminal once it is APPROVED or REJECTED: no step
\* changes the status of a row that is not PENDING.
C3_StatusIsTerminal ==
    [][\A i \in DOMAIN pending :
          pending[i].status # "PENDING" =>
              (i \in DOMAIN pending' /\ pending'[i].status = pending[i].status)]_vars

\* ------------------------------------------------------------------ C4
\* C4: set_status(id, newStatus) on a row that is not PENDING leaves the table
\* as it is, for every newStatus.
C4_SetStatusNoOpUnlessPending ==
    \A i \in DOMAIN pending : \A st \in Statuses :
        pending[i].status # "PENDING" => set_status(pending, pending[i].id, st) = pending

\* ------------------------------------------------------------------ C5
\* C5 (requests answered one after the other): once a decision on a row was
\* carried out, every later decision call on that row is answered "noop" with
\* the row as it stands, the status stays the one the first decision set, the
\* later call makes no storage call, and the statement ran at most once.
C5_SecondDecisionIsNoOp ==
    \A r1, r2 \in Requests :
        (r1 < r2 /\ Won(r1) /\ IsDecision(r2)
            /\ reqs[r2].pending_id = reqs[r1].pending_id)
        => /\ Done(r2)
           /\ reqs[r2].resp.code = 200 /\ reqs[r2].resp.status = "noop"
           /\ reqs[r2].resp.item = get(pending, reqs[r1].pending_id)
           /\ reqs[r2].resp.item.status = WonStatus(r1)
           /\ CallsBy(r2) = {}
           /\ Cardinality(SuccessfulExecutions(reqs[r1].pending_id)) <= 1

\* An approval carried out, then a second decision on the same row answered.
C5_Witness ==
    \E r1, r2 \in Requests :
        /\ r1 < r2 /\ Won(r1) /\ reqs[r1].resp.status = "approved"
        /\ Done(r2) /\ reqs[r2].kind = "confirm" /\ ~reqs[r2].approve
        /\ reqs[r2].pending_id = reqs[r1].pending_id

\* ------------------------------------------------------------------ C6
\* C6: a failed execute_db of an approval leaves the pending table as it is
\* (the row stays PENDING), ends the handler with HTTP 400, and is not
\* repeated by the handler (one storage call per approval); an approval that
\* finds the row PENDING calls execute_db, whatever failed before.
C6_FailedStep ==
    \A r \in Requests :
        (reqs[r].pc = "execute" /\ Steps(r) /\ ~storage_log'[Len(storage_log')].ok)
        => /\ pending' = pending
           /\ reqs[r].item.status = "PENDING"
           /\ reqs'[r].pc = "done"
           /\ reqs'[r].resp.code = 400
           /\ reqs'[r].resp.detail = <<"storage error", <<>> >>

C6_Attempts ==
    \A r \in Requests :
        (Done(r) /\ IsDecision(r) /\ reqs[r].approve
            /\ reqs[r].resp.code # 404 /\ reqs[r].resp.status # "noop")
        => /\ Cardinality(CallsBy(r)) = 1
           /\ \A k \in CallsBy(r) :
                 /\ storage_log[k].fn = "execute_db"
                 /\ storage_log[k].pid = reqs[r].pending_id
                 /\ storage_log[k].ok <=> Won(r)
                 /\ ~storage_log[k].ok <=> reqs[r].resp.code = 400

C6_FailureLeavesPending == [][C6_FailedStep]_vars /\ []C6_Attempts

\* An approval failed in storage, the row is still PENDING, and a later
\* approval of the same row called execute_db again.
C6_Witness ==
    \E k1, k2 \in DOMAIN storage_log :
        /\ k1 < k2
        /\ storage_log[k1].fn = "execute_db" /\ ~storage_log[k1].ok
        /\ storage_log[k2].fn = "execute_db"
        /\ storage_log[k2].pid = storage_log[k1].pid
        /\ storage_log[k2].req # storage_log[k1].req
        /\ Done(storage_log[k1].req) /\ reqs[storage_log[k1].req].resp.code = 400
        /\ get(pending, storage_log[k1].pid).status = "PENDING"

\* ------------------------------------------------------------------ C7
\* C7: a row is APPROVED only after a call of execute_db for its id succeeded.
C7_ApprovedAfterExecution ==
    \A i \in DOMAIN pending :
        pending[i].status = "APPROVED" => SuccessfulExecutions(pending[i].id) # {}

C7_Witness ==
    \E i \in DOMAIN pending :
        pending[i].status = "APPROVED" /\ \E k \in Executions(pending[i].id) : ~storage_log[k].ok

\* ------------------------------------------------------------------ C8
\* C8: a reject decision that finds the row PENDING goes on to set the status
\* to REJECTED, and a reject request never makes a storage call.
C8_RejectStep ==
    \A r \in Requests :
        /\ (Arrives(r) /\ reqs'[r].kind = "confirm" /\ ~reqs'[r].approve
               /\ get(pending, reqs'[r].pending_id).status = "PENDING")
           => (reqs'[r].pc = "reject" /\ pending' = pending /\ storage_log' = storage_log)
        /\ (reqs[r].pc = "reject" /\ Steps(r))
           => /\ get(pending', reqs[r].pending_id).status = "REJECTED"
              /\ storage_log' = storage_log
              /\ reqs'[r].pc = "done"
              /\ reqs'[r].resp.status = "rejected" /\ reqs'[r].resp.id = reqs[r].pending_id

C8_NoCallByReject ==
    \A r \in Requests : (reqs[r].kind = "confirm" /\ ~reqs[r].approve) => CallsBy(r) = {}

C8_RejectSetsRejectedWithoutExecution == [][C8_RejectStep]_vars /\ []C8_NoCallByReject

C8_Witness ==
    \E r \in Requests :
        /\ Won(r) /\ reqs[r].resp.status = "rejected"
        /\ get(pending, reqs[r].pending_id).status = "REJECTED"
        /\ Executions(reqs[r].pending_id) = {}

\* ------------------------------------------------------------------ C9
\* C9: the dispatch of a CREATE / UPDATE / DELETE candidate appends exactly one
\* row, with status PENDING and the candidate's database, kind and statement,
\* answers pending_approval with that row's id, and makes no storage call; at
\* every time such a request has made no storage call and owns exactly one
\* row once answered (none before).
C9_QueueStep ==
    \A r \in Requests :
        (reqs[r].kind = "nl_query" /\ reqs[r].pc = "dispatch" /\ Steps(r)
            /\ reqs[r].parsed.operation \in Mutations)
        => /\ Len(pending') = Len(pending) + 1
           /\ SubSeq(pending', 1, Len(pending)) = pending
           /\ LET row == pending'[Len(pending')]
              IN  /\ row.status = "PENDING"
                  /\ \A i \in DOMAIN pending : pending[i].id # row.id
                  /\ row.target_db = reqs[r].target_db
                  /\ row.operation = reqs[r].parsed.operation
                  /\ row.sql = reqs[r].parsed.sql
                  /\ validate_sql_safety(row.sql).safe
                  /\ reqs'[r].resp.id = row.id
           /\ reqs'[r].resp.code = 200
           /\ reqs'[r].resp.status = "pending_approval"
           /\ reqs'[r].resp.execution_status = "requires_human_approval"
           /\ reqs'[r].pc = "done"
           /\ storage_log' = storage_log

C9_OneRowPerMutation ==
    \A r \in Requests :
        reqs[r].kind = "nl_query" =>
            /\ (reqs[r].parsed.operation \in Mutations \/ reqs[r].resp.operation \in Mutations)
                  => CallsBy(r) = {}
            /\ Cardinality(RowsOf(r)) =
                  IF Done(r) /\ reqs[r].resp.operation \in Mutations THEN 1 ELSE 0
            /\ \A i \in RowsOf(r) : pending[i].id = reqs[r].resp.id

C9_MutationIsQueuedNotExecuted == [][C9_QueueStep]_vars /\ []C9_OneRowPerMutation

C9_Witness ==
    \E r \in Requests :
        /\ Done(r) /\ reqs[r].kind = "nl_query" /\ reqs[r].resp.status = "pending_approval"
        /\ reqs[r].resp.id = 2
        /\ get(pending, 2).status = "PENDING" /\ get(pending, 2).operation = "UPDATE"

\* ------------------------------------------------------------------ C10
\* C10: the dispatch of a READ candidate calls query_db once with the
\* candidate's database and statement and answers with the rows
\* (executed_directly), or with HTTP 400 when storage fails; in both cases the
\* pending table and its id counter are unchanged, and a READ request never
\* owns a row.
C10_ReadStep ==
    \A r \in Requests :
        (reqs[r].kind = "nl_query" /\ reqs[r].pc = "dispatch" /\ Steps(r)
            /\ reqs[r].parsed.operation = "READ")
        => /\ pending' = pending
           /\ sqlite_sequence' = sqlite_sequence
           /\ Len(storage_log') = Len(storage_log) + 1
           /\ SubSeq(storage_log', 1, Len(storage_log)) = storage_log
           /\ LET call == storage_log'[Len(storage_log')]
              IN  /\ call.fn = "query_db" /\ call.req = r
                  /\ call.target_db = reqs[r].target_db
                  /\ call.sql = reqs[r].parsed.sql
                  /\ call.ok => /\ reqs'[r].resp.code = 200
                                /\ reqs'[r].resp.execution_status = "executed_directly"
                  /\ ~call.ok => reqs'[r].resp.code = 400
           /\ reqs'[r].pc = "done"

C10_NoRowForRead ==
    \A r \in Requests :
        (reqs[r].kind = "nl_query"
            /\ (reqs[r].parsed.operation = "READ" \/ reqs[r].resp.operation = "READ"
                   \/ \E k \in CallsBy(r) : storage_log[k].fn = "query_db"))
        => RowsOf(r) = {}

C10_ReadLeavesStoreUnchanged == [][C10_ReadStep]_vars /\ []C10_NoRowForRead

\* A read answered from a store that holds a row, and a read that failed.
C10_Witness ==
    /\ Len(pending) = 1
    /\ \E r1, r2 \in Requests :
          /\ Done(r1) /\ reqs[r1].resp.execution_status = "executed_directly"
          /\ Done(r2) /\ reqs[r2].kind = "nl_query" /\ reqs[r2].resp.code = 400
          /\ \E k \in CallsBy(r2) : storage_log[k].fn = "query_db" /\ ~storage_log[k].ok

\* ------------------------------------------------- helpers, claims C11..C20
Kinds == {"READ", "CREATE", "UPDATE", "DELETE"}

AtDispatch(r) == reqs[r].kind = "nl_query" /\ reqs[r].pc = "dispatch"

\* The validator ran on the statement of request r and its verdict is kept.
Validated(r) == AtDispatch(r) /\ reqs[r].parsed.safety_check.present

\* The operation word of the reply, in capitals.
DeclaredWord(r) == UpperWord(reqs[r].parsed.metadata.operation)

HasKeyword(sql) ==
    \E k \in DOMAIN DANGEROUS_KEYWORDS : Contains(Lower(sql), DANGEROUS_KEYWORDS[k])

HasWhere(sql) == Contains(Lower(sql), <<"where">>)

NamesUpdateOrDelete(sql) ==
    Contains(Lower(sql), <<"update">>) \/ Contains(Lower(sql), <<"delete">>)

StoreUntouched ==
    /\ pending' = pending
    /\ sqlite_sequence' = sqlite_sequence
    /\ storage_log' = storage_log

FactorsOf(risk) == {risk.factors[i] : i \in DOMAIN risk.factors}

DeleteFactor == "DELETE operation - data will be permanently removed"
NoWhereFactor == "No WHERE clause - affects all rows"
WhereRuleReason == <<"UPDATE/DELETE without WHERE clause affects all rows", <<>> >>
ParseFailure == <<"Failed to parse LLM response", <<>> >>
StorageError == <<"storage error", <<>> >>

\* ---------------------------------------------------------------- C11
\* C11: a request whose operation kind came out UNKNOWN is answered with
\* HTTP 400 carrying the error of the translation, and that step adds no row
\* to the pending store, changes no status and makes no call to a target
\* database; a request answered this way never has a row or a call of its own.
C11_RefuseStep ==
    \A r \in Requests :
        (AtDispatch(r) /\ reqs[r].parsed.operation = "UNKNOWN" /\ Steps(r)) =>
            /\ StoreUntouched
            /\ reqs'[r].pc = "done"
            /\ reqs'[r].resp.code = 400
            /\ reqs'[r].resp.status = "error"
            /\ reqs'[r].resp.detail = reqs[r].parsed.error
            /\ reqs'[r].resp.id = 0

C11_NoTraceOfRefused ==
    \A r \in Requests :
        (Done(r) /\ reqs[r].kind = "nl_query" /\ reqs[r].resp.code = 400
                 /\ reqs[r].resp.detail # StorageError) =>
            RowsOf(r) = {} /\ CallsBy(r) = {}

C11_UnknownIsRefused == [][C11_RefuseStep]_vars /\ []C11_NoTraceOfRefused

\* A second request was refused because the reply could not be parsed, while
\* the store held the row of the first.
C11_Witness ==
    /\ Len(pending) = 1
    /\ \E r \in Requests :
          /\ Done(r) /\ reqs[r].kind = "nl_query"
          /\ reqs[r].resp.code = 400
          /\ reqs[r].resp.detail = ParseFailure
          /\ RowsOf(r) = {}

\* ---------------------------------------------------------------- C12
\* C12: whenever the validator's verdict on the statement is "unsafe", the
\* result of the translation is UNKNOWN with the validator's reason as error,
\* whatever operation word the reply declared, and the request ends with
\* HTTP 400 carrying that reason, without any row added and without any call
\* to a target database.
C12_UnsafeIsUnknown ==
    \A r \in Requests :
        (Validated(r) /\ ~reqs[r].parsed.safety_check.safe) =>
            /\ reqs[r].parsed.operation = "UNKNOWN"
            /\ reqs[r].parsed.error = reqs[r].parsed.safety_check.reason

C12_UnsafeStep ==
    \A r \in Requests :
        (Validated(r) /\ ~reqs[r].parsed.safety_check.safe /\ Steps(r)) =>
            /\ StoreUntouched
            /\ reqs'[r].pc = "done"
            /\ reqs'[r].resp.code = 400
            /\ reqs'[r].resp.detail = reqs[r].parsed.safety_check.reason

C12_UnsafeIsRefused == [][C12_UnsafeStep]_vars /\ []C12_UnsafeIsUnknown

\* A statement declared SELECT is found unsafe and is about to be refused.
C12_Witness ==
    \E r \in Requests :
        /\ Validated(r)
        /\ ~reqs[r].parsed.safety_check.safe
        /\ DeclaredWord(r) = "SELECT"
        /\ reqs[r].parsed.operation = "UNKNOWN"
        /\ Len(pending) = 1

\* ---------------------------------------------------------------- C13
\* C13: no risk assessment is computed for a statement the validator found
\* unsafe: the result of the translation carries none.
C13_NoRiskForUnsafe ==
    \A r \in Requests :
        (Validated(r) /\ ~reqs[r].parsed.safety_check.safe) =>
            reqs[r].parsed.risk_assessment = NoRisk

\* ---------------------------------------------------------------- C14
\* C14: a statement that contains a denylist keyword anywhere, in any case,
\* inside a longer word or a quoted string, is found unsafe with risk level
\* CRITICAL, and the reason names a denylist keyword the statement contains.
C14_KeywordIsUnsafe ==
    \A r \in Requests :
        (Validated(r) /\ HasKeyword(reqs[r].parsed.sql)) =>
            LET check == reqs[r].parsed.safety_check
            IN  /\ ~check.safe
                /\ check.risk_level = "CRITICAL"
                /\ \E k \in DOMAIN DANGEROUS_KEYWORDS :
                      /\ Contains(Lower(reqs[r].parsed.sql), DANGEROUS_KEYWORDS[k])
                      /\ check.reason = <<"Dangerous keyword detected: ",
                                          DANGEROUS_KEYWORDS[k]>>

\* The keyword "pragma", written in capitals inside a quoted string, is found.
C14_Witness ==
    \E r \in Requests :
        /\ Validated(r)
        /\ reqs[r].parsed.sql = Embedded(<<"PRAGMA">>)
        /\ reqs[r].parsed.safety_check.reason =
              <<"Dangerous keyword detected: ", <<"pragma">> >>
        /\ reqs[r].parsed.safety_check.risk_level = "CRITICAL"

\* ---------------------------------------------------------------- C15
\* C15, as stated: every statement whose declared operation is UPDATE or
\* DELETE and whose text has no "where" is found unsafe with level CRITICAL,
\* and the WHERE rule goes by the declared operation: it refuses no statement
\* declared otherwise.
C15_DeclaredKindDecides ==
    \A r \in Requests :
        Validated(r) =>
            LET sql == reqs[r].parsed.sql
                check == reqs[r].parsed.safety_check
            IN  /\ (DeclaredWord(r) \in {"UPDATE", "DELETE"} /\ ~HasWhere(sql)) =>
                       (~check.safe /\ check.risk_level = "CRITICAL")
                /\ (~check.safe /\ ~HasKeyword(sql)) =>
                       DeclaredWord(r) \in {"UPDATE", "DELETE"}

\* C15, amended: every statement whose lower-cased text holds "update" or
\* "delete" and no "where" is found unsafe with level CRITICAL, whatever
\* operation the reply declared; the rule reads the text, not the declared
\* operation, so a statement declared UPDATE or DELETE whose text holds
\* neither word and no denylist keyword passes without "where".  A statement
\* declared UPDATE with "where" and no denylist keyword passes.
C15_TextDecides ==
    \A r \in Requests :
        Validated(r) =>
            LET sql == reqs[r].parsed.sql
                check == reqs[r].parsed.safety_check
            IN  /\ (NamesUpdateOrDelete(sql) /\ ~HasWhere(sql)) =>
                       (~check.safe /\ check.risk_level = "CRITICAL")
                /\ (NamesUpdateOrDelete(sql) /\ ~HasWhere(sql) /\ ~HasKeyword(sql)) =>
                       check.reason = WhereRuleReason
                /\ (DeclaredWord(r) \in {"UPDATE", "DELETE"} /\ ~HasKeyword(sql)
                        /\ ~NamesUpdateOrDelete(sql)) => check.safe
                /\ (DeclaredWord(r) = "UPDATE" /\ HasWhere(sql) /\ ~HasKeyword(sql)) =>
                       check.safe

\* A statement declared SELECT that names a column last_updated and has no
\* WHERE clause is found unsafe by the WHERE rule.
C15_Witness ==
    \E r \in Requests :
        /\ Validated(r)
        /\ DeclaredWord(r) = "SELECT"
        /\ reqs[r].parsed.sql = SelLastUpdate
        /\ ~reqs[r].parsed.safety_check.safe
        /\ reqs[r].parsed.safety_check.reason = WhereRuleReason

\* ---------------------------------------------------------------- C16
\* C16, as stated: a statement with no denylist keyword that is not declared
\* UPDATE or DELETE without "where" is found safe with level LOW; a statement
\* declared SELECT or INSERT with no denylist keyword is safe with or without
\* "where".
C16_SafeUnlessDeclaredUpdateDelete ==
    \A r \in Requests :
        (Validated(r) /\ ~HasKeyword(reqs[r].parsed.sql)
            /\ ~(DeclaredWord(r) \in {"UPDATE", "DELETE"} /\ ~HasWhere(reqs[r].parsed.sql))) =>
            /\ reqs[r].parsed.safety_check.safe
            /\ reqs[r].parsed.safety_check.risk_level = "LOW"

\* C16, amended: a statement with no denylist keyword whose text does not hold
\* "update" or "delete" without "where" is found safe with level LOW and the
\* translation reports no error; a statement declared SELECT or INSERT with no
\* denylist keyword is safe with or without "where" provided its text holds
\* neither "update" nor "delete" (not even inside a column name).
C16_SafeUnlessTextNamesUpdateDelete ==
    \A r \in Requests :
        (Validated(r) /\ ~HasKeyword(reqs[r].parsed.sql)
            /\ ~(NamesUpdateOrDelete(reqs[r].parsed.sql) /\ ~HasWhere(reqs[r].parsed.sql))) =>
            /\ reqs[r].parsed.safety_check.safe
            /\ reqs[r].parsed.safety_check.risk_level = "LOW"
            /\ reqs[r].parsed.error = NoError

\* An INSERT without a WHERE clause passes with level LOW.
C16_Witness ==
    \E r \in Requests :
        /\ Validated(r)
        /\ DeclaredWord(r) = "INSERT"
        /\ reqs[r].parsed.sql = InsRow
        /\ reqs[r].parsed.safety_check.safe
        /\ reqs[r].parsed.safety_check.risk_level = "LOW"
        /\ reqs[r].parsed.operation = "CREATE"

\* ---------------------------------------------------------------- C17
\* The row as a store written before the assessment was kept in the metadata
\* would hold it.
WithoutStoredRisk(row) == [row EXCEPT !.metadata = [text |-> row.metadata.text]]

\* C17: the assessment made for a DELETE has level HIGH or CRITICAL and holds
\* the factor "data will be permanently removed", for every database and
\* every statement text: in the result of the translation, in the row that is
\* stored, and in the manual assessment of the details endpoint.
C17_DeleteIsAtLeastHigh ==
    /\ \A r \in Requests :
          (AtDispatch(r) /\ DeclaredWord(r) = "DELETE") =>
              /\ reqs[r].parsed.risk_assessment.level \in {"HIGH", "CRITICAL"}
              /\ DeleteFactor \in FactorsOf(reqs[r].parsed.risk_assessment)
    /\ \A i \in DOMAIN pending :
          pending[i].operation = "DELETE" =>
              /\ pending[i].metadata.risk_assessment.level \in {"HIGH", "CRITICAL"}
              /\ DeleteFactor \in FactorsOf(pending[i].metadata.risk_assessment)
              /\ assess_operation_risk(WithoutStoredRisk(pending[i])).level
                    \in {"HIGH", "CRITICAL"}
              /\ DeleteFactor \in FactorsOf(assess_operation_risk(WithoutStoredRisk(pending[i])))

\* A DELETE with a WHERE clause on a database that is not sensitive is stored
\* with level HIGH.
C17_Witness ==
    \E i \in DOMAIN pending :
        /\ pending[i].operation = "DELETE"
        /\ pending[i].sql = DelWhere
        /\ pending[i].target_db = "hr"
        /\ pending[i].metadata.risk_assessment.level = "HIGH"

\* ---------------------------------------------------------------- C18
\* C18, as stated: the assessment of a CREATE, UPDATE or DELETE whose text has
\* no "where" has level CRITICAL and holds the factor "No WHERE clause".
C18_MutationWithoutWhereIsCritical ==
    \A r \in Requests :
        (AtDispatch(r) /\ DeclaredWord(r) \in {"INSERT", "UPDATE", "DELETE"}
                       /\ ~HasWhere(reqs[r].parsed.sql)) =>
            /\ reqs[r].parsed.risk_assessment.level = "CRITICAL"
            /\ NoWhereFactor \in FactorsOf(reqs[r].parsed.risk_assessment)

\* C18, amended: the assessment of an UPDATE or DELETE whose text has no
\* "where" has level CRITICAL and holds the factor "No WHERE clause"; the
\* rule does not apply to a CREATE, whose level without "where" stays LOW, or
\* MEDIUM on a sensitive database, and which never gets that factor.
C18_UpdateDeleteWithoutWhereIsCritical ==
    \A r \in Requests :
        AtDispatch(r) =>
            LET risk == reqs[r].parsed.risk_assessment
                sql == reqs[r].parsed.sql
            IN  /\ (DeclaredWord(r) \in {"UPDATE", "DELETE"} /\ ~HasWhere(sql)) =>
                       (risk.level = "CRITICAL" /\ NoWhereFactor \in FactorsOf(risk))
                /\ DeclaredWord(r) = "INSERT" =>
                       (risk.level \in {"LOW", "MEDIUM"} /\ NoWhereFactor \notin FactorsOf(risk))

\* An UPDATE without a WHERE clause has been assessed CRITICAL.
C18_Witness ==
    \E r \in Requests :
        /\ AtDispatch(r)
        /\ DeclaredWord(r) = "UPDATE"
        /\ reqs[r].parsed.sql = UpdNoWhere
        /\ reqs[r].parsed.risk_assessment.level = "CRITICAL"
        /\ NoWhereFactor \in FactorsOf(reqs[r].parsed.risk_assessment)

\* ---------------------------------------------------------------- C19
Sensitive == {"finance", "healthcare"}

\* C19: on finance or healthcare the assessment holds the sensitivity factor
\* of that database after the factors of the earlier rules, and the level is
\* MEDIUM exactly when the earlier rules left it LOW; HIGH and CRITICAL stay
\* as they are.  A DELETE without "where" on a sensitive database is CRITICAL
\* with the DELETE, the no-WHERE and the sensitivity factor.  On any other
\* database there is no sensitivity factor and the level is never MEDIUM.
C19_SensitivityOnlyRaisesLow ==
    \A r \in Requests :
        (AtDispatch(r) /\ DeclaredWord(r) \in {"INSERT", "UPDATE", "DELETE"}) =>
            LET risk == reqs[r].parsed.risk_assessment
                db == reqs[r].parsed.target_db
                del == DeclaredWord(r) = "DELETE"
                nowhere == DeclaredWord(r) \in {"UPDATE", "DELETE"}
                           /\ ~HasWhere(reqs[r].parsed.sql)
            IN  /\ (del => DeleteFactor \in FactorsOf(risk))
                /\ (nowhere => NoWhereFactor \in FactorsOf(risk) /\ risk.level = "CRITICAL")
                /\ (del /\ ~nowhere => risk.level = "HIGH")
                /\ db \in Sensitive =>
                      /\ risk.factors # <<>>
                      /\ risk.factors[Len(risk.factors)] = SensitivityFactor(db)
                      /\ risk.level # "LOW"
                      /\ (risk.level = "MEDIUM" <=> (~del /\ ~nowhere))
                      /\ (del /\ nowhere) =>
                            risk.factors = <<DeleteFactor, NoWhereFactor, SensitivityFactor(db)>>
                /\ db \notin Sensitive =>
                      /\ FactorsOf(risk) \subseteq {DeleteFactor, NoWhereFactor}
                      /\ risk.level # "MEDIUM"
                      /\ (risk.level = "LOW" <=> (~del /\ ~nowhere))

\* DELETE FROM patients on healthcare: CRITICAL with the three factors.
C19_Witness ==
    \E r \in Requests :
        /\ AtDispatch(r)
        /\ DeclaredWord(r) = "DELETE"
        /\ reqs[r].parsed.sql = DelNoWhere
        /\ reqs[r].parsed.target_db = "healthcare"
        /\ reqs[r].parsed.risk_assessment =
              [level |-> "CRITICAL",
               factors |-> <<DeleteFactor, NoWhereFactor,
                             "Healthcare data - high sensitivity">>]

\* ---------------------------------------------------------------- C20
\* The assessment the submitter was given when the row with this id was made.
CreationRisk(pid) ==
    LET creator == CHOOSE r \in Requests :
                       /\ reqs[r].kind = "nl_query"
                       /\ reqs[r].resp.status = "pending_approval"
                       /\ reqs[r].resp.id = pid
    IN  reqs[creator].resp.risk_assessment

\* C20: the assessment of a row is the one made when the row was created, in
\* every state and on every read path: the row in the store keeps it whatever
\* decision is taken, and GET /pending/{id}, GET /pending and
\* GET /pending/{id}/details each report exactly it.
C20_ReportedRiskIsCreationRisk ==
    /\ \A i \in DOMAIN pending :
          pending[i].metadata.risk_assessment = CreationRisk(pending[i].id)
    /\ \A r \in Requests :
          (Done(r) /\ reqs[r].kind \in {"get_pending", "get_pending_details"}
                   /\ reqs[r].resp.code = 200) =>
              reqs[r].resp.risk_assessment = CreationRisk(reqs[r].resp.item.id)
    /\ \A r \in Requests :
          (Done(r) /\ reqs[r].kind = "list_pending") =>
              \A k \in DOMAIN reqs[r].resp.items :
                  reqs[r].resp.items[k].risk_assessment =
                      CreationRisk(reqs[r].resp.items[k].item.id)

\* The details of a row are read after it was approved: the assessment is the
\* MEDIUM one made for the UPDATE on finance when it was filed.
C20_Witness ==
    \E r \in Requests :
        /\ Done(r)
        /\ reqs[r].kind = "get_pending_details"
        /\ reqs[r].resp.code = 200
        /\ reqs[r].resp.item.status = "APPROVED"
        /\ reqs[r].resp.risk_assessment =
              [level |-> "MEDIUM", factors |-> <<"Finance data - high sensitivity">>]

\* ---------------------------------------------------------------- C21
\* C21: the k-th row created has id k: ids are unique, ascending in creation
\* order and without gaps, and the id counter equals the number of rows; no
\* step changes the id of a row or lowers the counter, so no id is handed out
\* twice; every submitter, also when several are in flight together, is given
\* the id of the row made from its own request.
C21_IdsDense ==
    /\ sqlite_sequence = Len(pending)
    /\ \A i \in DOMAIN pending : pending[i].id = i

C21_OwnId ==
    \A r \in Requests :
        (Done(r) /\ reqs[r].kind = "nl_query" /\ reqs[r].resp.status = "pending_approval") =>
            /\ reqs[r].resp.id \in DOMAIN pending
            /\ RowsOf(r) = {reqs[r].resp.id}
            /\ pending[reqs[r].resp.id].id = reqs[r].resp.id

C21_IdsKept ==
    /\ sqlite_sequence' >= sqlite_sequence
    /\ Len(pending') >= Len(pending)
    /\ \A i \in DOMAIN pending : pending'[i].id = pending[i].id

C21_IdsUniqueDenseOwn == [][C21_IdsKept]_vars /\ [](C21_IdsDense /\ C21_OwnId)

\* Two submissions were in flight together; the one that arrived second was
\* filed first: it holds id 1 and the first one id 2.
C21_Witness ==
    /\ Done(1) /\ reqs[1].kind = "nl_query" /\ reqs[1].resp.id = 2
    /\ Done(2) /\ reqs[2].kind = "nl_query" /\ reqs[2].resp.id = 1
    /\ Len(pending) = 2

\* ---------------------------------------------------------------- C22
\* C22: no step changes the target database, the operation, the statement or
\* the metadata of a stored row, and no step removes a row: a row differs
\* from what it was at most in its status; a replacement statement given to
\* approve-with-modifications is executed but not written into the row.
C22_OnlyStatusChanges ==
    \A i \in DOMAIN pending :
        /\ i \in DOMAIN pending'
        /\ pending'[i] = [pending[i] EXCEPT !.status = pending'[i].status]

C22_RowIsSnapshot == [][C22_OnlyStatusChanges]_vars

\* A row was approved with DROP TABLE as replacement: the replacement was
\* executed for it, the row still holds the UPDATE it was filed with.
C22_Witness ==
    \E i \in DOMAIN pending :
        /\ pending[i].status = "APPROVED"
        /\ pending[i].sql = UpdWhere
        /\ \E k \in SuccessfulExecutions(pending[i].id) : storage_log[k].sql = DropTable

\* ---------------------------------------------------------------- C23
Restarts == {r \in Requests : reqs[r].kind = "restart"}

\* C23: no step removes a row or changes the id of one; a restart leaves every
\* row as it was, fields and status, and the id counter too, and empties the
\* conversation history: no turn recorded before a restart is in the history
\* after it.
C23_RowsStay ==
    \A i \in DOMAIN pending : i \in DOMAIN pending' /\ pending'[i].id = pending[i].id

C23_RestartStep ==
    \A r \in Requests :
        (reqs[r].kind = "none" /\ reqs'[r].kind = "restart") =>
            /\ pending' = pending
            /\ sqlite_sequence' = sqlite_sequence
            /\ history' = <<>>

C23_NoTurnSurvives ==
    \A k \in DOMAIN history : \A r \in Restarts : history[k].query > r

C23_StoreSurvivesRestart ==
    [][C23_RowsStay /\ C23_RestartStep]_vars /\ []C23_NoTurnSurvives

\* A statement was filed (a turn was recorded) and approved, then the process
\* was restarted: the approved row is there, the history is empty.
C23_Witness ==
    /\ Restarts # {}
    /\ history = <<>>
    /\ \E i \in DOMAIN pending :
          pending[i].status = "APPROVED" /\ pending[i].sql = UpdWhere

\* ---------------------------------------------------------------- C24
\* C24: the answer of GET /pending holds the rows in ascending order of id;
\* with a status filter it holds exactly the rows of the table that have this
\* status, without one it holds every row of the table.
C24_ListStep ==
    \A r \in Requests :
        (reqs[r].kind = "none" /\ reqs'[r].kind = "list_pending") =>
            LET items == reqs'[r].resp.items
                f == reqs'[r].status_filter
            IN  /\ \A k \in DOMAIN items :
                      k < Len(items) => items[k].item.id < items[k + 1].item.id
                /\ {items[k].item : k \in DOMAIN items} =
                      {pending[i] : i \in {j \in DOMAIN pending :
                                              f = None \/ pending[j].status = f}}

Lookups == {"confirm", "approve_with_modifications", "get_pending", "get_pending_details"}

\* C25: a decision (confirm, reject, approve-with-modifications) or a lookup
\* (get, details) for an id that has no row is answered with 404 at once, and
\* that step adds no row, changes no row and makes no call to a target
\* database; a request answered 404 never makes such a call.
C25_NotFoundStep ==
    \A r \in Requests :
        (reqs[r].kind = "none" /\ reqs'[r].kind \in Lookups
            /\ get(pending, reqs'[r].pending_id) = NoItem) =>
            /\ StoreUntouched
            /\ reqs'[r].pc = "done"
            /\ reqs'[r].resp.code = 404
            /\ reqs'[r].resp.item = NoItem

C25_NoCallByNotFound ==
    \A r \in Requests :
        (Done(r) /\ reqs[r].resp.code = 404) =>
            /\ reqs[r].kind \in Lookups
            /\ CallsBy(r) = {}

C25_NotFoundChangesNothing == [][C25_NotFoundStep]_vars /\ []C25_NoCallByNotFound

\* An approval for id 2 was answered 404 while the table held row 1 alone,
\* still PENDING.
C25_Witness ==
    \E r \in Requests :
        /\ Done(r) /\ reqs[r].kind = "confirm" /\ reqs[r].approve
        /\ reqs[r].pending_id = 2
        /\ reqs[r].resp.code = 404
        /\ Len(pending) = 1 /\ pending[1].status = "PENDING"
        /\ storage_log = <<>>

\* ---------------------------------------------------------------- C26
\* C26: approve-with-modifications on a row it found PENDING always passes
\* the replacement statement to execute_db, also when validate_sql_safety
\* finds the replacement unsafe; when the call succeeds the handler goes on to
\* set the row APPROVED and answers approved_with_modifications.
C26_ExecuteStep ==
    \A r \in Requests :
        (reqs[r].kind = "approve_with_modifications" /\ reqs[r].pc = "execute"
            /\ Steps(r)) =>
            /\ Len(storage_log') = Len(storage_log) + 1
            /\ LET call == storage_log'[Len(storage_log')]
               IN  /\ call.fn = "execute_db"
                   /\ call.sql = reqs[r].modified_sql
                   /\ call.target_db = reqs[r].item.target_db
                   /\ call.pid = reqs[r].pending_id
                   /\ call.ok => reqs'[r].pc = "set_approved"
                   /\ ~call.ok => (reqs'[r].pc = "done" /\ reqs'[r].resp.code = 400)

C26_ApproveStep ==
    \A r \in Requests :
        (reqs[r].kind = "approve_with_modifications" /\ reqs[r].pc = "set_approved"
            /\ Steps(r)) =>
            /\ get(pending', reqs[r].pending_id).status = "APPROVED"
            /\ reqs'[r].resp.status = "approved_with_modifications"

C26_ReplacementIsNotValidated == [][C26_ExecuteStep /\ C26_ApproveStep]_vars

\* DROP TABLE, which the validator refuses, was given as replacement, was
\* executed with success and the row is APPROVED.
C26_Witness ==
    /\ ~validate_sql_safety(DropTable).safe
    /\ \E r \in Requests :
          /\ Done(r) /\ reqs[r].kind = "approve_with_modifications"
          /\ reqs[r].modified_sql = DropTable
          /\ reqs[r].resp.status = "approved_with_modifications"
          /\ get(pending, reqs[r].pending_id).status = "APPROVED"
          /\ \E k \in CallsBy(r) : storage_log[k].sql = DropTable /\ storage_log[k].ok

\* ---------------------------------------------------------------- C27
\* C27: a request for a database that is not configured is refused before the
\* translator is called: its result is UNKNOWN and holds nothing that comes
\* from a reply of the model, neither a statement nor an operation word.
C27_NoTranslationForUnknownDb ==
    \A r \in Requests :
        (AtDispatch(r) /\ reqs[r].target_db \notin SCHEMA) =>
            /\ reqs[r].parsed.operation = "UNKNOWN"
            /\ reqs[r].parsed.sql = NoSql
            /\ reqs[r].parsed.metadata.operation = None

\* C28: the history never holds more than HistoryCap turns, in no state and
\* in no answer of GET /test/conversation-history, also between the append
\* and the cut of another request.
C28_HistoryNeverExceedsCap ==
    /\ Len(history) <= HistoryCap
    /\ \A r \in Requests :
          reqs[r].kind = "get_conversation_history" =>
              reqs[r].resp.history_length <= HistoryCap

\* C29: two requests for which the translator returned the same statement,
\* the same operation word and the same database get the same safety verdict,
\* the same risk assessment, the same result and the same branch of the
\* dispatch, whatever their texts and the history they ran with.
SameTranslation(r1, r2) ==
    /\ r1 # r2
    /\ AtDispatch(r1) /\ AtDispatch(r2)
    /\ reqs[r1].parsed.sql = reqs[r2].parsed.sql
    /\ reqs[r1].parsed.metadata.operation = reqs[r2].parsed.metadata.operation
    /\ reqs[r1].target_db = reqs[r2].target_db

C29_ReferenceDoesNotDecide ==
    \A r1, r2 \in Requests :
        SameTranslation(r1, r2) =>
            /\ reqs[r1].parsed.safety_check = reqs[r2].parsed.safety_check
            /\ reqs[r1].parsed.risk_assessment = reqs[r2].parsed.risk_assessment
            /\ reqs[r1].parsed.operation = reqs[r2].parsed.operation
            /\ reqs[r1].parsed.error = reqs[r2].parsed.error
            /\ (ENABLED NlQueryRead(r1)) = (ENABLED NlQueryRead(r2))
            /\ (ENABLED NlQueryQueue(r1)) = (ENABLED NlQueryQueue(r2))
            /\ (ENABLED NlQueryRefuse(r1)) = (ENABLED NlQueryRefuse(r2))

C29_Witness ==
    \E r1, r2 \in Requests :
        /\ SameTranslation(r1, r2)
        /\ reqs[r1].parsed.metadata.context_analysis.has_reference
        /\ reqs[r1].parsed.metadata.context_analysis.recent_context # <<>>
        /\ ~reqs[r2].parsed.metadata.context_analysis.has_reference
        /\ reqs[r1].parsed.operation = "UPDATE"
        /\ reqs[r1].parsed.risk_assessment # NoRisk

\* C30: a result that carries an error of the workflow (no JSON in the reply,
\* a reply that is not JSON, an unknown database, an unsafe statement) has
\* operation UNKNOWN; a result with READ, CREATE, UPDATE or DELETE carries no
\* error.
GenerationFailure == <<"SQL generation failed: ", <<>> >>

C31_RejectedWasNeverExecuted ==
    \A i \in DOMAIN pending :
        pending[i].status = "REJECTED" => SuccessfulExecutions(pending[i].id) = {}

\* C32: when no decision is in flight, a row that is still PENDING has no
\* successful execution, also after set_status failed.
NoDecisionInFlight == \A r \in Requests : IsDecision(r) => Done(r)

C32_PendingWasNeverExecuted ==
    NoDecisionInFlight =>
        \A i \in DOMAIN pending :
            pending[i].status = "PENDING" => SuccessfulExecutions(pending[i].id) = {}

\* C33: the statement of every stored row passed the validator: it contains
\* no keyword of DANGEROUS_KEYWORDS, and it contains "where" when it contains
\* "update" or "delete".
C33_StoredStatementIsSafe ==
    \A i \in DOMAIN pending :
        /\ ~HasKeyword(pending[i].sql)
        /\ NamesUpdateOrDelete(pending[i].sql) => HasWhere(pending[i].sql)

C33_Witness ==
    \E i \in DOMAIN pending :
        /\ NamesUpdateOrDelete(pending[i].sql)
        /\ HasWhere(pending[i].sql)
        /\ pending[i].operation = "CREATE"

\* C34: no request to /nl-query commits a change to a target database,
\* whatever operation word and statement the model returns: every committed
\* change was made by a decision.
C34_OnlyDecisionsCommitChanges ==
    \A k \in DOMAIN storage_log :
        CommittedChange(storage_log[k]) => reqs[storage_log[k].req].kind \in Decisions

\* C35: every run of the graph goes through analyze_context, retrieve_schema,
\* generate_sql, validate_safety, then generate_hints only when no error is
\* set and the verdict is safe, then finalize; finalize is reached on every
\* run.
PathBeforeRouter == <<"analyze_context", "retrieve_schema", "generate_sql", "validate_safety">>

RanGraph(r) == reqs[r].kind = "nl_query" /\ reqs[r].pc \in {"dispatch", "done"}

C35_RouterDecidesHints ==
    \A r \in Requests :
        AtDispatch(r) =>
            reqs[r].path =
                PathBeforeRouter
                \o (IF reqs[r].parsed.error = NoError /\ reqs[r].parsed.safety_check.present
                       /\ reqs[r].parsed.safety_check.safe
                    THEN <<"generate_hints">> ELSE <<>>)
                \o <<"finalize">>

C35_FixedNodeOrder ==
    /\ C35_RouterDecidesHints
    /\ \A r \in Requests :
          RanGraph(r) =>
              reqs[r].path \in {PathBeforeRouter \o <<"finalize">>,
                                PathBeforeRouter \o <<"generate_hints", "finalize">>}

\* C36: once no call of llm_parse_to_action is in flight, the history holds
\* the turn of every request that recorded one, unless newer turns pushed it
\* out; with at most HistoryCap requests no turn of theirs can be pushed out.
Recorded(r) ==
    /\ reqs[r].kind = "nl_query" /\ reqs[r].pc = "done"
    /\ reqs[r].path # <<>> /\ reqs[r].path[Len(reqs[r].path)] = "finalize"

C36_NoTurnIsLost ==
    (MaxRequests <= HistoryCap /\ ~InFlight) =>
        \A r \in Requests :
            Recorded(r) => \E k \in DOMAIN history : history[k].query = r
====
